---------------------------- MODULE Spec2Model ----------------------------
(***************************************************************************)
(* Voxsmith 2.2: the narration run of generate_narration (the worker       *)
(* thread, src/voxsmith_2_2.pyw 912-1301) together with the two front-end  *)
(* handlers that share state with it (main.on_run, main.on_cancel).        *)
(*                                                                         *)
(* The model follows one run, from the Start click to the end of the       *)
(* worker's cleanup.  The run starts in any state the application can be   *)
(* in while the Start button is enabled: the worker of the previous run    *)
(* re-enables Start at line 1295 and may still have lines 1296 and 1297 to *)
(* run (it is counted in tailBtn / tailClr), and the deck may carry the    *)
(* narration audio of an earlier run.                                      *)
(***************************************************************************)
EXTENDS Integers, Sequences, FiniteSets, TLC

(* ------------------------------ bounds -------------------------------- *)
\* number of slides of the deck (len(prs.slides))
NumSlides == 2
\* failures of the host (COM automation, ffmpeg) injected in one run
MaxFaults == 1
\* length of a slide's notes text
MaxNoteLen == 6
\* length of a range expression, and slides of the deck it selects from
MaxSpecLen == 5
MaxTotal == 3
\* runs of the same deck whose manifests are followed
MaxRuns == 2
\* seconds before and after one week at which the clock is read
MaxSkew == 1

(* ------------------------- program constants -------------------------- *)
NET_MAX_ATTEMPTS == 3
\* NET_BACKOFF_BASE = 0.75 (seconds), here in milliseconds
NET_BACKOFF_BASE == 750

Slides == 1..NumSlides

\* Effect categories of a timeline entry.  "text" is the text-content
\* category that cannot be replayed; "audio" is a narration effect bound to
\* a VOX_VO audio shape.
SafeCategories == {"entrance", "emphasis"}
Categories == SafeCategories \cup {"text", "audio"}

\* Timelines a slide of the opened deck may start with: two replayable
\* effects, a text animation, one effect followed by the narration effect of
\* an earlier run, no animation.
InitTimelines ==
  << <<"entrance", "emphasis">>, <<"text">>, <<"entrance", "audio">>, <<>> >>

\* The decks a run is tried on: the four timelines above laid over the
\* slides cyclically, from each starting point.
Decks ==
  { [s \in 1..NumSlides |-> InitTimelines[((s + r) % Len(InitTimelines)) + 1]] :
      r \in 0..(Len(InitTimelines) - 1) }

\* HTTP outcomes of one sess.post call: a status code, or a raised
\* requests.RequestException (a timeout is one of them).
StatusCodes == {200, 204, 400, 500}
Response(code) == [kind |-> "response", status_code |-> code]
Raised(e) == [kind |-> e, status_code |-> 0]
NoResponse == [kind |-> "none", status_code |-> 0]
Statuses == { Response(c) : c \in StatusCodes }
Transport == { Raised(e) : e \in {"timeout", "connection_error"} }
Outcomes == Statuses \cup Transport

(* ------------------------------- state -------------------------------- *)
VARIABLES
  start_button,        \* "normal" | "disabled"
  cancel_button,       \* "normal" | "disabled"
  cancel_event,        \* threading.Event shared by all runs
  tailBtn,             \* workers about to run line 1296
  tailClr,             \* workers about to run line 1297
  pc,                  \* position of the running worker
  inputs,              \* api_key, voice_id and what validation finds on
                       \* the machine (deck file, ffmpeg)
  total,               \* select_slides: its first argument
  spec,                \* select_slides: the range expression
  selected,            \* select_slides: the value returned
  text,                \* notes resolution: the slide's raw notes text
  shapes,              \* notes resolution: slide.shapes
  extract_raises,      \* notes resolution: extract_slide_text raises
  note,                \* notes resolution: the resolved notes
  run,                 \* runs started so far (bookkeeping)
  session_ts,          \* time.strftime value taken by the current run
  manifests,           \* manifest file of each session_manifest_path
  checksums,           \* its sibling .sha256 file
  appended,            \* per path: the records handed to an append, in
                       \* order (bookkeeping)
  audio_only,
  sel,                 \* select_slides(total, spec): ascending sequence
  i,                   \* position in sel of the loop in progress
  pp_pres,             \* TRUE when the COM presentation handle is held
  animation_snapshots, \* idx -> absent | None | snapshot
  attempts,
  resp,                \* outcome of the last sess.post call
  posts,               \* outcomes of the sess.post calls made for the
                       \* slide in progress, in order
  sleeps,              \* arguments of the time.sleep calls made for the
                       \* slide in progress, in milliseconds, in order
  processed,
  log,                 \* per slide: the log_line calls of this run
  runlog,              \* run-level log_line / messagebox calls of this run
  timeline,            \* live MainSequence of each slide (host document)
  voxShape,            \* slide holds a VOX_VO audio shape
  savedTimeline,       \* the document as last written by pp_pres.Save()
  wav,                 \* slideNN.wav in the output folder: "none", "old"
                       \* (left by an earlier run) or "new" (this run's)
  original,            \* the timelines of the deck when the run started
  faults,              \* host failures so far in this run
  settings_file,       \* SETTINGS_FILE on disk
  fallback_file,       \* settings.json in the temp folder
  vault,               \* the keyring entry (APP_NAME, "elevenlabs")
  settings,            \* main: the dict "settings" of line 1304
  startup,             \* position of main during startup
  migrated,            \* the api_key handed to set_api_key at line 1309
  startup_fetch_key,   \* the key handed to fetch_voices at line 2057
  cache_file,          \* voices_cache.json
  now,                 \* datetime.now(), in seconds
  voices_map,          \* main: the voices shown in the combo box
  voice_id_var,        \* main: the selected voice id ("" for none)
  bg,                  \* the background_voice_refresh thread: position
                       \* and locals
  after_update_ui,     \* root.after(0, update_ui) not yet served
  after_refresh,       \* root.after(0, on_refresh_voices) not yet served
  acct_state,          \* main: "Logged in" | "Logged out"
  lock,                \* PreviewPlayer._lock: "free" or the thread holding it
  temp_path,           \* PreviewPlayer._temp_path is set (not None)
  temp_file,           \* the converted preview file exists on disk
  sound,               \* a preview is being played
  preview_btn,         \* "normal" | "disabled"
  thread,              \* PreviewPlayer._thread: position of preview.worker
  caller,              \* position of the thread that calls stop()
  winsound             \* "winsound and sys.platform.startswith('win')"

\* The settings files and what main does with them at startup.
settingsVars == <<settings_file, fallback_file, settings, startup, migrated,
                  startup_fetch_key>>
\* The voice cache, the voice list of the window and the refresh thread.
voiceVars == <<cache_file, now, voices_map, voice_id_var, bg,
               after_update_ui, after_refresh, acct_state>>
\* Settings, key vault, voices: the application outside a narration run.
\* The PreviewPlayer object and the threads that use it.
previewVars == <<lock, temp_path, temp_file, sound, preview_btn, thread,
                 caller, winsound>>
appVars == <<settingsVars, vault, voiceVars, previewVars>>
uiVars == <<start_button, cancel_button, cancel_event, tailBtn, tailClr>>
reqVars == <<attempts, resp, posts, sleeps>>
\* Arguments and results of the functions that are checked on their own
\* (select_slides, the notes resolution of lines 1061-1090).
pureVars == <<total, spec, selected, text, shapes, extract_raises, note>>
\* The manifest files in the logs folder and the run that writes them.
manVars == <<run, session_ts, manifests, checksums, appended>>
runVars == <<pc, inputs, appVars, pureVars, manVars, audio_only, sel, i, pp_pres, animation_snapshots, reqVars,
             processed, log, runlog>>
docVars == <<timeline, voxShape, savedTimeline, wav, original>>
vars == <<uiVars, runVars, docVars, faults>>

\* A COM call or the ffmpeg process fails / does not fail in this step.
Fault == /\ faults < MaxFaults
         /\ faults' = faults + 1
NoFault == UNCHANGED faults

(* ------------------------- helper operators --------------------------- *)
\* Text is a sequence of characters; in notes and shape texts the units
\* "###", "read" and "slide" are written as one element each (the marker
\* pattern matches them in any letter case).  str.strip(): leading and
\* trailing whitespace is dropped.
Whitespace == {" ", "\n"}
RECURSIVE LStrip(_)
LStrip(s) ==
  IF s # <<>> /\ Head(s) \in Whitespace THEN LStrip(Tail(s)) ELSE s
RECURSIVE RStrip(_)
RStrip(s) ==
  IF s # <<>> /\ s[Len(s)] \in Whitespace
    THEN RStrip(SubSeq(s, 1, Len(s) - 1)) ELSE s
\* Variant: the text is tested as it is ("if not api_key").
Strip_nothing(s) == s

Strip(s) == RStrip(LStrip(s))

\* What on_run passes to generate_narration, and what the validation of
\* lines 927-934 finds on the machine.
ApiKeys == {<<>>, <<" ">>, <<"k">>}
VoiceIds == {<<>>, <<" ">>, <<"v">>}
Inputs ==
  [api_key : ApiKeys, voice_id : VoiceIds,
   deck_is_file : BOOLEAN, ffmpeg_available : BOOLEAN]

RECURSIVE SeqFilter(_, _)
SeqFilter(s, keep) ==
  IF s = <<>> THEN <<>>
  ELSE IF Head(s) \in keep THEN <<Head(s)>> \o SeqFilter(Tail(s), keep)
       ELSE SeqFilter(Tail(s), keep)

\* Variant: the selection in descending order.
RECURSIVE SortedSeq_descending(_)
SortedSeq_descending(S) ==
  IF S = {} THEN <<>>
  ELSE LET m == CHOOSE x \in S : \A y \in S : x >= y
       IN <<m>> \o SortedSeq_descending(S \ {m})

\* Ascending sequence of the members of a set of slide numbers (sorted(s)).
RECURSIVE SortedSeq(_)
SortedSeq(S) ==
  IF S = {} THEN <<>>
  ELSE LET m == CHOOSE x \in S : \A y \in S : x <= y
       IN <<m>> \o SortedSeq(S \ {m})

\* Results select_slides can return for a deck of NumSlides slides.
Selections == { SortedSeq(S) : S \in SUBSET Slides }

(* ------------------------ select_slides (640-665) --------------------- *)
Digits == <<"0", "1", "2", "3", "4", "5", "6", "7", "8", "9">>
IsDigit(c) == \E k \in 1..Len(Digits) : Digits[k] = c
DigitVal(c) == (CHOOSE k \in 1..Len(Digits) : Digits[k] = c) - 1

\* Value of a non-empty run of decimal digits.
RECURSIVE Decimal(_)
Decimal(s) ==
  IF Len(s) = 1 THEN DigitVal(s[1])
  ELSE 10 * Decimal(SubSeq(s, 1, Len(s) - 1)) + DigitVal(s[Len(s)])

\* int(s): blanks around, an optional minus sign, then digits only; anything
\* else raises ValueError (ok = FALSE).
ParseInt(s) ==
  LET t == Strip(s)
      neg == t # <<>> /\ t[1] = "-"
      d == IF neg THEN Tail(t) ELSE t
  IN IF d # <<>> /\ \A k \in 1..Len(d) : IsDigit(d[k])
       THEN [ok |-> TRUE, val |-> IF neg THEN 0 - Decimal(d) ELSE Decimal(d)]
       ELSE [ok |-> FALSE, val |-> 0]

\* Position of the first occurrence of c in s, 0 when there is none.
RECURSIVE Find(_, _, _)
Find(s, c, p) ==
  IF p > Len(s) THEN 0 ELSE IF s[p] = c THEN p ELSE Find(s, c, p + 1)

\* str.split(sep)
RECURSIVE Split(_, _)
Split(s, sep) ==
  LET p == Find(s, sep, 1)
  IN IF p = 0 THEN <<s>>
     ELSE <<SubSeq(s, 1, p - 1)>> \o Split(SubSeq(s, p + 1, Len(s)), sep)

\* Variant: the start of a range is taken as written.
ClipStart_unclipped(st) == st

\* max(1, st)
ClipStart(st) == IF st < 1 THEN 1 ELSE st

\* min(total, en)
ClipEnd(tot, en) == IF en > tot THEN tot ELSE en

\* Variant: every number written alone is selected.
InDeck_any(tot, n) == TRUE

\* "1 <= n <= total"
InDeck(tot, n) == 1 <= n /\ n <= tot

\* The slides one stripped, non-empty part of the expression adds to the set.
PartSlides(tot, part) ==
  LET p == Find(part, "-", 1)
  IN IF p # 0
       THEN LET a == SubSeq(part, 1, p - 1)
                b == SubSeq(part, p + 1, Len(part))
                ia == ParseInt(a)
                ib == ParseInt(b)
                st == ClipStart(IF a # <<>> /\ ia.ok THEN ia.val ELSE 1)
                en == ClipEnd(tot, IF b # <<>> /\ ib.ok THEN ib.val ELSE tot)
            IN IF st <= en THEN st..en ELSE {}
       ELSE LET n == ParseInt(part)
            IN IF n.ok /\ InDeck(tot, n.val) THEN {n.val} ELSE {}

select_slides(tot, expr) ==
  IF Strip(expr) = <<>> THEN SortedSeq(1..tot)
  ELSE LET parts == Split(expr, ",")
       IN SortedSeq(UNION { IF Strip(parts[k]) = <<>> THEN {}
                            ELSE PartSlides(tot, Strip(parts[k]))
                            : k \in 1..Len(parts) })

(* --------------------- the manifest (924-926, 1135-1155) -------------- *)
\* Values time.strftime('%Y%m%d_%H%M%S') can give to the runs of one deck;
\* each names one session_manifest_path.
Timestamps == 1..MaxRuns

\* A manifest file: absent, a JSON list of records, or what an interrupted
\* json.dump leaves behind (open(path, 'w') has truncated the file).
NoFile == [exists |-> FALSE, valid |-> FALSE, records |-> <<>>]
File(recs) == [exists |-> TRUE, valid |-> TRUE, records |-> recs]
Truncated == [exists |-> TRUE, valid |-> FALSE, records |-> <<>>]

\* _sha256_file: the digest of the bytes of a file, "" when it cannot be
\* read.  Two files have the same digest only when they have the same bytes.
Sha256(file) == [kind |-> "sha256", of |-> file]
EmptyDigest == [kind |-> "empty", of |-> NoFile]
NoChecksum == [kind |-> "absent", of |-> NoFile]

\* The record of line 1142: slide and http_status (voice id, the hashes of
\* text and audio, the byte count and the attempt count are left out).
\* "run" is bookkeeping: the run that appended the record; it is not in the
\* file.
ManifestRecord(idx, status, r) ==
  [slide |-> idx, http_status |-> status, run |-> r]

\* What the file system does during one append: the read of the manifest,
\* its rewrite (done, refused at open, or interrupted after the truncation)
\* and the rewrite of the checksum file (done, the manifest unreadable for
\* _sha256_file, or refused).
ManifestIO ==
  [read : BOOLEAN, write : {"ok", "refused", "partial"},
   sha : {"ok", "unreadable", "refused"}]
AllOk == [read |-> TRUE, write |-> "ok", sha |-> "ok"]

\* Lines 1137-1141: json.load of the manifest, [] on any exception.
ManifestLoad(file, io) ==
  IF file.exists /\ file.valid /\ io.read THEN file.records ELSE <<>>

\* Lines 1135-1155: load, append the record, rewrite the manifest, rewrite
\* the checksum; every exception is swallowed.
manifest_append(path, rec, io) ==
  LET new == Append(ManifestLoad(manifests[path], io), rec)
      written == IF io.write = "ok" THEN File(new)
                 ELSE IF io.write = "partial" THEN Truncated
                 ELSE manifests[path]
  IN /\ manifests' = [manifests EXCEPT ![path] = written]
     /\ checksums' =
          IF io.write # "ok" THEN checksums
          ELSE IF io.sha = "ok"
            THEN [checksums EXCEPT ![path] = Sha256(written)]
          ELSE IF io.sha = "unreadable"
            THEN [checksums EXCEPT ![path] = EmptyDigest]
          ELSE checksums
     /\ appended' = [appended EXCEPT ![path] = Append(@, rec)]

\* Lines 924-926: the run takes its timestamp; the path is built from it.
BeginSession(ts) ==
  /\ run' = run + 1
  /\ session_ts' = ts
  /\ UNCHANGED <<manifests, checksums, appended>>

Absent == [kind |-> "absent", effects |-> <<>>]
NoneSnapshot == [kind |-> "None", effects |-> <<>>]
Snapshot(effects) == [kind |-> "snapshot", effects |-> effects]

\* Variant: the restore is handed an empty snapshot.
SnapshotGet_empty(idx) == Snapshot(<<>>)

\* animation_snapshots.get(idx): None for a missing key and for a stored None.
SnapshotGet(idx) ==
  IF animation_snapshots[idx].kind = "snapshot" THEN animation_snapshots[idx]
  ELSE NoneSnapshot

\* voxanimate.cleanup_orphaned_audio_effects: drops the effects left by an
\* earlier narration-audio shape.
cleanup_orphaned_audio_effects(tl) == SeqFilter(tl, Categories \ {"audio"})

\* voxanimate.snapshot_slide_animations: the ordered effects of the slide.
snapshot_slide_animations(tl) == Snapshot(tl)

\* voxanimate.should_skip_audio_attachment
should_skip_audio_attachment(snapshot) ==
  \E k \in 1..Len(snapshot.effects) : snapshot.effects[k] = "text"

\* voxanimate.restore_slide_animations on success: the timeline is cleared,
\* the captured effects are replayed in order, the audio effect comes last.
restore_slide_animations(snapshot) == snapshot.effects \o <<"audio">>

\* voxattach._delete_existing_vox_audio: the old VOX_VO shapes go, and their
\* effects with them.
delete_existing_vox_audio(tl) == SeqFilter(tl, Categories \ {"audio"})

\* voxattach._append_media_play_after_previous
append_media_play_after_previous(tl) == Append(tl, "audio")

Idx == sel[i]

(* ----------------------- notes resolution (1061-1090) ----------------- *)
\* First position at or after p that holds no whitespace ("\s*").
RECURSIVE SkipSpace(_, _)
SkipSpace(s, p) ==
  IF p <= Len(s) /\ s[p] \in Whitespace THEN SkipSpace(s, p + 1) ELSE p

\* re.compile(r'###\s*read\s*slide', re.IGNORECASE) matched at position p:
\* the position of the last element of the match, 0 when there is none.
read_slide_match(s, p) ==
  IF p <= Len(s) /\ s[p] = "###"
    THEN LET q == SkipSpace(s, p + 1) IN
         IF q <= Len(s) /\ s[q] = "read"
           THEN LET r == SkipSpace(s, q + 1) IN
                IF r <= Len(s) /\ s[r] = "slide" THEN r ELSE 0
           ELSE 0
    ELSE 0

\* read_slide_pattern.search(note)
read_slide_search(s) == \E p \in 1..Len(s) : read_slide_match(s, p) > 0

\* read_slide_pattern.sub with an expanded replacement: the leftmost
\* non-overlapping matches from position p on are replaced, in one pass.
RECURSIVE SubFrom(_, _, _)
SubFrom(repl, s, p) ==
  IF p > Len(s) THEN <<>>
  ELSE IF read_slide_match(s, p) > 0
    THEN repl \o SubFrom(repl, s, read_slide_match(s, p) + 1)
    ELSE <<s[p]>> \o SubFrom(repl, s, p + 1)

\* The replacement argument of re.sub is a template: a backslash starts an
\* escape.  "\n" becomes a newline, a doubled backslash one backslash, a
\* backslash before another letter or at the end is an error (re.error),
\* before anything else it is kept.
Letters == {"x", "y", "read", "slide"}
RECURSIVE ExpandTemplate(_)
ExpandTemplate(tpl) ==
  IF tpl = <<>> THEN [ok |-> TRUE, text |-> <<>>]
  ELSE IF Head(tpl) # "\\"
    THEN LET rest == ExpandTemplate(Tail(tpl)) IN
         [ok |-> rest.ok, text |-> <<Head(tpl)>> \o rest.text]
  ELSE IF Len(tpl) = 1 THEN [ok |-> FALSE, text |-> <<>>]
  ELSE LET c == tpl[2]
           rest == ExpandTemplate(SubSeq(tpl, 3, Len(tpl)))
       IN  IF c = "n" THEN [ok |-> rest.ok, text |-> <<"\n">> \o rest.text]
           ELSE IF c = "\\" THEN [ok |-> rest.ok, text |-> <<"\\">> \o rest.text]
           ELSE IF c \in Letters THEN [ok |-> FALSE, text |-> <<>>]
           ELSE [ok |-> rest.ok, text |-> <<"\\", c>> \o rest.text]

\* extract_slide_text, lines 845-906.  A shape is a record of its kind
\* ("title": placeholder of type TITLE, "text": has a text frame, "table",
\* "group"), its top and left and its text; its shape_id is its position.
TitleShapeId(shps) ==
  IF \E k \in 1..Len(shps) : shps[k].kind = "title"
    THEN CHOOSE k \in 1..Len(shps) :
           /\ shps[k].kind = "title"
           /\ \A j \in 1..(k - 1) : shps[j].kind # "title"
    ELSE 0

RECURSIVE TextItems(_, _)
TextItems(shps, k) ==
  IF k > Len(shps) THEN <<>>
  ELSE IF \/ k = TitleShapeId(shps)
          \/ shps[k].kind \in {"group", "table"}
          \/ Strip(shps[k].text) = <<>>
    THEN TextItems(shps, k + 1)
    ELSE <<[top |-> shps[k].top, left |-> shps[k].left,
            text |-> Strip(shps[k].text)]>> \o TextItems(shps, k + 1)

\* key=lambda x: (x[0], x[1])
KeyLE(a, b) == a.top < b.top \/ (a.top = b.top /\ a.left <= b.left)

\* list.sort: stable, ascending by key.
RECURSIVE InsertItem(_, _)
InsertItem(sorted, item) ==
  IF sorted = <<>> THEN <<item>>
  ELSE IF KeyLE(Head(sorted), item)
    THEN <<Head(sorted)>> \o InsertItem(Tail(sorted), item)
    ELSE <<item>> \o sorted
RECURSIVE SortItems(_)
SortItems(items) ==
  IF items = <<>> THEN <<>>
  ELSE InsertItem(SortItems(SubSeq(items, 1, Len(items) - 1)),
                  items[Len(items)])

\* '\n'.join(item[2] for item in text_items)
RECURSIVE JoinLines(_)
JoinLines(items) ==
  IF items = <<>> THEN <<>>
  ELSE IF Len(items) = 1 THEN items[1].text
  ELSE items[1].text \o <<"\n">> \o JoinLines(Tail(items))

extract_slide_text(shps) == JoinLines(SortItems(TextItems(shps, 1)))

\* "note = read_slide_pattern.sub("", note).strip()"
RemoveMarker(s) == Strip(SubFrom(<<>>, s, 1))

\* Lines 1063-1085: the notes that go to "if not note" and into the payload,
\* from the raw notes text, the slide's shapes and whether
\* extract_slide_text raises.
ResolveNote(txt, shps, raises) ==
  LET stripped == Strip(txt) IN
  IF ~read_slide_search(stripped) THEN stripped
  ELSE IF raises THEN RemoveMarker(stripped)
  ELSE LET slide_text == extract_slide_text(shps) IN
       IF slide_text = <<>> THEN RemoveMarker(stripped)
       ELSE IF ExpandTemplate(slide_text).ok
         THEN SubFrom(ExpandTemplate(slide_text).text, stripped, 1)
         ELSE RemoveMarker(stripped)

\* attempts, last_err and resp are assigned afresh at lines 1100-1102 and are
\* not read once the slide's manifest record is written (line 1143).
ForgetRequest ==
  /\ attempts' = 0
  /\ resp' = NoResponse
  /\ posts' = <<>>
  /\ sleeps' = <<>>

AddLog(idx, tag) == [log EXCEPT ![idx] = @ \cup {tag}]

(* ----------------------- settings and key vault ----------------------- *)
\* A dict entry: absent, or present with a text value.
Missing == [present |-> FALSE, value |-> <<>>]
Value(v) == [present |-> TRUE, value |-> v]

\* The keys of the settings dict that matter here: the legacy plaintext key
\* and one ordinary setting.
EmptyDict == [api_key |-> Missing, voice_id |-> Missing]

\* A settings file: absent, holding a dict as JSON, or holding what an
\* interrupted json.dump left.
NoSettingsFile == [exists |-> FALSE, valid |-> FALSE, data |-> EmptyDict]
SettingsFileOf(d) == [exists |-> TRUE, valid |-> TRUE, data |-> d]
CorruptFile == [exists |-> TRUE, valid |-> FALSE, data |-> EmptyDict]

\* load_settings (lines 347-354): the dict of SETTINGS_FILE, or {} when the
\* file is absent or open / json.load raises.
load_settings(file, readable) ==
  IF file.exists /\ file.valid /\ readable THEN file.data ELSE EmptyDict

\* data.update(kwargs) (line 358): the keys of kwargs overwrite, every other
\* key of data stays.
Merge(data, kwargs) ==
  [k \in DOMAIN data |-> IF kwargs[k].present THEN kwargs[k] ELSE data[k]]

\* What the file system does to a save: the read of line 357, the write of
\* SETTINGS_FILE, the write of the fallback file.
SettingsIO ==
  [read : BOOLEAN, write : {"ok", "refused", "partial"}, fallback : BOOLEAN]

\* save_settings(**kwargs) (lines 356-374).
save_settings(kwargs, io) ==
  LET data == Merge(load_settings(settings_file, io.read), kwargs)
  IN IF io.write = "ok"
       THEN /\ settings_file' = SettingsFileOf(data)
            /\ UNCHANGED fallback_file
     ELSE /\ settings_file' = IF io.write = "partial" THEN CorruptFile
                               ELSE settings_file
          /\ fallback_file' = IF io.fallback THEN SettingsFileOf(data)
                               ELSE fallback_file

\* set_api_key (lines 388-392): keyring.set_password with the stripped key;
\* an exception of the keyring backend is swallowed.
set_api_key(k, keyring_ok) ==
  vault' = IF keyring_ok THEN Value(Strip(k)) ELSE vault

\* "if d.get(key):" on a text entry.
Truthy(entry) == entry.present /\ entry.value # <<>>

(* ----------------------------- voice cache ---------------------------- *)
\* "if age_seconds > 604800:  # 1 week" (line 436)
WEEK_SECONDS == 604800

\* hashlib.sha256(key).hexdigest(): equal digests for equal keys only.
Hash(k) == [sha256 |-> k]

\* get_api_key (lines 377-386) with ELEVENLABS_API_KEY unset: the stripped
\* keyring entry, "" when there is none.
ApiKeyOf(v) == IF v.present THEN Strip(v.value) ELSE <<>>
get_api_key == ApiKeyOf(vault)

\* The voices the service returns for a key: each account has its own.
AccountVoices(k) ==
  IF k = <<"a">> THEN <<[name |-> "Ann", voice_id |-> "va"]>>
  ELSE IF k = <<"b">> THEN <<[name |-> "Bob", voice_id |-> "vb"]>>
  ELSE <<>>

\* voices_cache.json: absent, or the dict written by save_voice_cache.
NoCache ==
  [exists |-> FALSE, api_key_hash |-> Hash(<<>>), last_updated |-> 0,
   voices |-> <<>>]
Cache(h, t, v) ==
  [exists |-> TRUE, api_key_hash |-> h, last_updated |-> t, voices |-> v]

\* load_voice_cache (lines 410-445); NoCache stands for None.
load_voice_cache ==
  IF ~cache_file.exists THEN NoCache
  ELSE IF get_api_key = <<>> THEN NoCache
  ELSE IF cache_file.api_key_hash # Hash(get_api_key) THEN NoCache
  ELSE IF now - cache_file.last_updated > WEEK_SECONDS THEN NoCache
  ELSE cache_file

\* voices_changed (lines 480-499) on lists of (name, voice_id).
voices_changed(cached_voices, fresh_voices) ==
  \/ cached_voices = <<>>
  \/ { <<cached_voices[j].voice_id, cached_voices[j].name>> :
         j \in 1..Len(cached_voices) }
       # { <<fresh_voices[j].voice_id, fresh_voices[j].name>> :
           j \in 1..Len(fresh_voices) }

\* The selection made after the list was filled (lines 1791-1802,
\* 1829-1843, 1880-1900) when no saved voice matches: the first name.
FirstVoiceId(voices) ==
  IF voices = <<>> THEN voice_id_var ELSE voices[1].voice_id

\* The refresh thread: not started, or at one of its steps.
BgIdle ==
  [pc |-> "none", k |-> <<>>, fresh_items |-> <<>>, changed |-> FALSE,
   current_key |-> <<>>]
NoUpdate == [scheduled |-> FALSE, fresh_items |-> <<>>]

\* PreviewPlayer.__init__ (lines 668-675); no preview was asked for.
PlayerAtRest ==
  /\ lock = "free"
  /\ temp_path = FALSE
  /\ temp_file = FALSE
  /\ sound = FALSE
  /\ preview_btn = "normal"
  /\ thread = "none"
  /\ caller = "idle"

\* The same on Windows.
PreviewAtRest == PlayerAtRest /\ winsound = TRUE

\* The application after its startup, logged in, no settings file.
AppAtRest ==
  /\ PreviewAtRest
  /\ settings_file = NoSettingsFile
  /\ fallback_file = NoSettingsFile
  /\ vault = Value(<<"k">>)
  /\ settings = EmptyDict
  /\ startup = "running"
  /\ migrated = Missing
  /\ startup_fetch_key = Missing
  /\ cache_file = NoCache
  /\ now = 0
  /\ voices_map = <<>>
  /\ voice_id_var = ""
  /\ bg = BgIdle
  /\ after_update_ui = NoUpdate
  /\ after_refresh = FALSE
  /\ acct_state = "Logged in"

(* ------------------------------- Init --------------------------------- *)
HasAudio(tl) == \E k \in 1..Len(tl) : tl[k] = "audio"

\* The front end while Start is enabled.  No earlier worker is left; or one
\* is about to run line 1296 (Cancel still enabled, or the earlier run was
\* cancelled: on_cancel disabled the button and set the event); or it is
\* about to run line 1297.
InitUI ==
  /\ start_button = "normal"
  /\ \/ /\ tailBtn = 0 /\ tailClr = 0
        /\ cancel_button = "disabled" /\ cancel_event = FALSE
     \/ /\ tailBtn = 1 /\ tailClr = 0
        /\ \/ cancel_button = "normal" /\ cancel_event = FALSE
           \/ cancel_button = "disabled" /\ cancel_event = TRUE
     \/ /\ tailBtn = 0 /\ tailClr = 1
        /\ cancel_button = "disabled" /\ cancel_event \in BOOLEAN

Init ==
  /\ InitUI
  /\ pc = "idle"
  /\ inputs \in Inputs
  /\ total = NumSlides
  /\ spec = <<>>
  /\ selected = <<>>
  /\ text = <<>>
  /\ shapes = <<>>
  /\ extract_raises = FALSE
  /\ note = <<>>
  /\ run = 0
  /\ session_ts = 1
  /\ manifests = [t \in Timestamps |-> NoFile]
  /\ checksums = [t \in Timestamps |-> NoChecksum]
  /\ appended = [t \in Timestamps |-> <<>>]
  /\ audio_only = FALSE
  /\ sel = <<>>
  /\ i = 1
  /\ pp_pres = FALSE
  /\ animation_snapshots = [s \in Slides |-> Absent]
  /\ attempts = 0
  /\ resp = NoResponse
  /\ posts = <<>>
  /\ sleeps = <<>>
  /\ processed = 0
  /\ log = [s \in Slides |-> {}]
  /\ runlog = {}
  /\ timeline \in Decks
  /\ voxShape = [s \in Slides |-> HasAudio(timeline[s])]
  /\ savedTimeline = timeline
  /\ original = timeline
  /\ wav = [s \in Slides |-> IF HasAudio(timeline[s]) THEN "old" ELSE "none"]
  /\ faults = 0
  /\ AppAtRest


(* ------------------------ front-end handlers -------------------------- *)
\* Variant: the Start button stays enabled while the worker runs.
DisableStart_left_enabled == UNCHANGED start_button

\* Line 1299: start_button.configure(state="disabled")
DisableStart == start_button' = "disabled"

\* main.on_run -> generate_narration: the Start button (or run_btn.invoke()
\* from the Enter key) calls it while the button is enabled; lines 1299-1301
\* disable Start, enable Cancel and start the worker thread.
OnRun ==
  /\ start_button = "normal"
  /\ pc = "idle"
  /\ DisableStart
  /\ cancel_button' = "normal"
  /\ pc' = "validate"
  /\ audio_only' \in BOOLEAN
  /\ sel' \in Selections
  /\ i' = 1
  /\ pp_pres' = FALSE
  /\ animation_snapshots' = [s \in Slides |-> Absent]
  /\ ForgetRequest
  /\ processed' = 0
  /\ log' = [s \in Slides |-> {}]
  /\ runlog' = {}
  /\ BeginSession(1)
  /\ UNCHANGED <<cancel_event, tailBtn, tailClr, inputs, appVars, pureVars, docVars,
                 faults>>

\* main.on_cancel: the Cancel button's command.
OnCancel ==
  /\ cancel_button = "normal"
  /\ cancel_event' = TRUE
  /\ cancel_button' = "disabled"
  /\ runlog' = runlog \cup {"cancelling"}
  /\ UNCHANGED <<start_button, tailBtn, tailClr, pc, inputs, appVars, pureVars, manVars, audio_only, sel, i,
                 pp_pres, animation_snapshots, reqVars, processed, log,
                 docVars, faults>>

(* ------------------------------ worker -------------------------------- *)
\* The statement after "continue" / the end of the loop body: next idx.
NextSlide == /\ i' = i + 1
             /\ pc' = "loop"

\* An early "return" of the worker after one report to the user.
Abort(tag) ==
  /\ runlog' = runlog \cup {tag}
  /\ pc' = "finally"
  /\ UNCHANGED pp_pres

\* Variant: PowerPoint is opened in audio-only mode as well.
SkipsPowerPoint_never == FALSE

\* Line 957, "if audio_only:": the COM open and the snapshot pass are skipped.
SkipsPowerPoint == audio_only

\* Lines 927-1020: validation, deck load, selection, COM open.
Validate ==
  /\ pc = "validate"
  /\ IF Strip(inputs.api_key) = <<>> THEN Abort("missing_api_key")
     ELSE IF Strip(inputs.voice_id) = <<>> THEN Abort("missing_voice")
     ELSE IF ~inputs.deck_is_file THEN Abort("deck_not_found")
     ELSE IF ~inputs.ffmpeg_available THEN Abort("ffmpeg_not_found")
     ELSE \/ \* Presentation(input_file) raised
             Abort("open_failed")
          \/ \* the range selected no slides
             /\ sel = <<>>
             /\ Abort("no_slides_selected")
          \/ /\ sel # <<>>
             /\ SkipsPowerPoint
             /\ pc' = "loop"
             /\ UNCHANGED <<pp_pres, runlog>>
          \/ \* the COM open failed
             /\ sel # <<>>
             /\ ~SkipsPowerPoint
             /\ Abort("com_open_failed")
          \/ /\ sel # <<>>
             /\ ~SkipsPowerPoint
             /\ pp_pres' = TRUE
             /\ pc' = "snapshot"
             /\ UNCHANGED runlog
  /\ UNCHANGED <<uiVars, inputs, appVars, pureVars, manVars, audio_only, sel, i,
                 animation_snapshots, reqVars, processed, log, docVars,
                 faults>>

\* Variant: the snapshot is taken before the orphan cleanup.
SnapshotSlide_before_cleanup ==
  /\ UNCHANGED original
  /\ pc = "snapshot"
  /\ i <= Len(sel)
  /\ ~cancel_event
  /\ NoFault
  /\ animation_snapshots' =
       [animation_snapshots EXCEPT ![Idx] = snapshot_slide_animations(timeline[Idx])]
  /\ timeline' = [timeline EXCEPT ![Idx] = cleanup_orphaned_audio_effects(@)]
  /\ log' = AddLog(Idx, "backed_up")
  /\ i' = i + 1
  /\ UNCHANGED <<uiVars, pc, inputs, appVars, pureVars, manVars, audio_only, sel, pp_pres, reqVars,
                 processed, runlog, voxShape, savedTimeline, wav>>

\* Lines 1026-1046: one iteration of the batch snapshot loop.
SnapshotSlide ==
  /\ UNCHANGED original
  /\ pc = "snapshot"
  /\ i <= Len(sel)
  /\ ~cancel_event
  /\ \/ \* pp_pres.Slides(idx) or the cleanup raised before changing anything
        /\ Fault
        /\ animation_snapshots' = [animation_snapshots EXCEPT ![Idx] = NoneSnapshot]
        /\ log' = AddLog(Idx, "backup_failed")
        /\ UNCHANGED timeline
     \/ \* cleanup done, snapshot_slide_animations raised
        /\ Fault
        /\ timeline' = [timeline EXCEPT ![Idx] = cleanup_orphaned_audio_effects(@)]
        /\ animation_snapshots' = [animation_snapshots EXCEPT ![Idx] = NoneSnapshot]
        /\ log' = AddLog(Idx, "backup_failed")
     \/ /\ NoFault
        /\ timeline' = [timeline EXCEPT ![Idx] = cleanup_orphaned_audio_effects(@)]
        /\ animation_snapshots' =
             [animation_snapshots EXCEPT
                ![Idx] = snapshot_slide_animations(timeline'[Idx])]
        /\ log' = AddLog(Idx, "backed_up")
  /\ i' = i + 1
  /\ UNCHANGED <<uiVars, pc, inputs, appVars, pureVars, manVars, audio_only, sel, pp_pres, reqVars,
                 processed, runlog, voxShape, savedTimeline, wav>>

\* Lines 1026-1028 and 1048: the snapshot loop ends (exhausted, or break on
\* cancel) and the slide loop starts from the first selected slide.
SnapshotDone ==
  /\ pc = "snapshot"
  /\ i > Len(sel) \/ cancel_event
  /\ pc' = "loop"
  /\ i' = 1
  /\ UNCHANGED <<uiVars, inputs, appVars, pureVars, manVars, audio_only, sel, pp_pres, animation_snapshots,
                 reqVars, processed, log, runlog, docVars, faults>>

\* What a slide of the deck can hold: no notes, blank notes, plain notes,
\* the marker on a slide without text (alone, or the extraction raising),
\* the marker on a slide with a text box.
SlideNotes ==
  { [text |-> <<>>, shapes |-> <<>>, raises |-> FALSE],
    [text |-> <<" ">>, shapes |-> <<>>, raises |-> FALSE],
    [text |-> <<"x">>, shapes |-> <<>>, raises |-> FALSE],
    [text |-> <<"###", "read", "slide">>, shapes |-> <<>>, raises |-> FALSE],
    [text |-> <<"###", "read", "slide", " ">>, shapes |-> <<>>,
     raises |-> TRUE],
    [text |-> <<" ", "###", " ", "read", "slide">>,
     shapes |-> <<[kind |-> "text", top |-> 0, left |-> 0, text |-> <<"x">>]>>,
     raises |-> FALSE] }

\* Variant: empty notes are narrated like any other.
NoNote_never(n) == FALSE

\* Line 1087: "if not note"
NoNote(n) == n = <<>>

\* Lines 1056-1095: cancel check, notes resolution, request set-up.
StartSlide ==
  /\ pc = "loop"
  /\ i <= Len(sel)
  /\ ~cancel_event
  /\ ForgetRequest
  /\ \E n \in SlideNotes : note' = ResolveNote(n.text, n.shapes, n.raises)
  /\ IF NoNote(note')
       THEN \* nothing to narrate
            /\ log' = AddLog(Idx, "skip_no_notes")
            /\ processed' = processed + 1
            /\ NextSlide
       ELSE /\ log' = AddLog(Idx, "generating")
            /\ pc' = "post"
            /\ UNCHANGED <<i, processed>>
  /\ UNCHANGED <<uiVars, inputs, appVars, manVars, total, spec, selected, text, shapes,
                 extract_raises, audio_only, sel, pp_pres,
                 animation_snapshots, runlog, docVars, faults>>

\* Lines 1056-1059: the loop is exhausted, or breaks on cancellation.
LoopExit ==
  /\ pc = "loop"
  /\ \/ /\ i > Len(sel)
        /\ UNCHANGED runlog
     \/ /\ i <= Len(sel)
        /\ cancel_event
        /\ runlog' = runlog \cup {"run_cancelled"}
  /\ pc' = "summary"
  /\ ForgetRequest
  /\ UNCHANGED <<uiVars, inputs, appVars, pureVars, manVars, audio_only, sel, i, pp_pres, animation_snapshots,
                 processed, log, docVars, faults>>

\* Variant: every error status counts as retryable.
Is5xx_any_error(o) == o \in Statuses /\ 400 <= o.status_code

\* "500 <= resp.status_code < 600"
Is5xx(o) == o \in Statuses /\ 500 <= o.status_code /\ o.status_code < 600

\* Variant: one retry less.
Retries_once_less(o, n) ==
  (Is5xx(o) \/ o \in Transport) /\ n < NET_MAX_ATTEMPTS - 1

\* Variant: a timeout is raised to the caller at once.
Retries_not_on_timeout(o, n) ==
  \/ Is5xx(o) /\ n < NET_MAX_ATTEMPTS
  \/ o = Raised("connection_error") /\ n < NET_MAX_ATTEMPTS

\* Whether the retry loop goes round again after outcome o of attempt n.
Retries(o, n) ==
  \/ Is5xx(o) /\ n < NET_MAX_ATTEMPTS
  \/ o \in Transport /\ n < NET_MAX_ATTEMPTS

\* 2 ** n
RECURSIVE Pow2(_)
Pow2(n) == IF n = 0 THEN 1 ELSE 2 * Pow2(n - 1)

\* Variant: the first wait is already doubled.
Backoff_from_attempts(n) == NET_BACKOFF_BASE * Pow2(n)

\* Lines 1110 and 1115: NET_BACKOFF_BASE * (2 ** (attempts-1)), the argument
\* of time.sleep after attempt n, in milliseconds.
Backoff(n) == NET_BACKOFF_BASE * Pow2(n - 1)

\* Lines 1103-1123 and 1262-1266: one sess.post call and what follows it.
Post ==
  /\ pc = "post"
  /\ attempts < NET_MAX_ATTEMPTS
  /\ \E o \in Outcomes :
       /\ attempts' = attempts + 1
       /\ resp' = o
       /\ posts' = Append(posts, o)
       /\ sleeps' = IF Retries(o, attempts')
                      THEN Append(sleeps, Backoff(attempts'))
                      ELSE sleeps
       /\ IF Retries(o, attempts')
            THEN \* time.sleep(backoff); continue
                 UNCHANGED <<pc, i, processed, log>>
          ELSE IF o = Response(200)
            THEN /\ pc' = "convert"
                 /\ UNCHANGED <<i, processed, log>>
          ELSE IF o \in Transport
            THEN \* raise -> except requests.RequestException
                 /\ log' = AddLog(Idx, "network_error")
                 /\ processed' = processed + 1
                 /\ NextSlide
          ELSE   \* break with a non-200 response
                 /\ log' = AddLog(Idx, "api_error")
                 /\ processed' = processed + 1
                 /\ NextSlide
  /\ UNCHANGED <<uiVars, inputs, appVars, pureVars, manVars, audio_only, sel, pp_pres, animation_snapshots,
                 runlog, docVars, faults>>


\* Variant: the snapshot is not consulted before attaching.
SkipCheck_never(idx) == FALSE

\* Lines 1171-1174: "if snapshot:" and the skip decision on it.
SkipCheck(idx) ==
  /\ animation_snapshots[idx].kind = "snapshot"
  /\ should_skip_audio_attachment(animation_snapshots[idx])

\* Lines 1135-1155 in a run: the record of the slide in progress goes to
\* the run's manifest.  The file system does its part here; its failures
\* are followed in SpecManifest.
RecordManifest ==
  /\ manifest_append(session_ts,
                     ManifestRecord(Idx, resp.status_code, run),
                     AllOk)
  /\ UNCHANGED <<run, session_ts>>

\* Lines 1125-1179: temp file, manifest, ffmpeg, then the audio-only and the
\* text-animation exits.  run_ffmpeg_quiet is outside the per-slide try: an
\* exception of it reaches the worker's outer handler (line 1282); its exit
\* status is not looked at.
ConvertAt(at) ==
  /\ UNCHANGED original
  /\ pc = at
  /\ \/ \* the temp-file write raised (1130-1131)
        /\ Fault
        /\ runlog' = runlog \cup {"fatal_error"}
        /\ pc' = "finally"
        /\ UNCHANGED <<i, processed, log, wav, manVars>>
     \/ \* subprocess.run raised
        /\ Fault
        /\ RecordManifest
        /\ runlog' = runlog \cup {"fatal_error"}
        /\ pc' = "finally"
        /\ UNCHANGED <<i, processed, log, wav>>
     \/ \E written \in BOOLEAN :   \* exit status 0, or not
          /\ IF written THEN NoFault ELSE Fault
          /\ RecordManifest
          /\ wav' = [wav EXCEPT ![Idx] = IF written THEN "new" ELSE @]
          /\ UNCHANGED runlog
          /\ IF audio_only
               THEN /\ log' = [log EXCEPT ![Idx] = @ \cup {"converted", "audio_only"}]
                    /\ processed' = processed + 1
                    /\ NextSlide
             ELSE IF SkipCheck(Idx)
               THEN /\ log' = [log EXCEPT ![Idx] = @ \cup {"converted", "skip_attachment"}]
                    /\ processed' = processed + 1
                    /\ NextSlide
             ELSE   /\ log' = AddLog(Idx, "converted")
                    /\ pc' = "attach"
                    /\ UNCHANGED <<i, processed>>
  /\ ForgetRequest
  /\ UNCHANGED <<uiVars, inputs, appVars, pureVars, audio_only, sel, pp_pres, animation_snapshots,
                 timeline, voxShape, savedTimeline>>

\* The same lines as one step of the worker.
Convert == ConvertAt("convert")

\* "except Exception as e" of the per-slide try (lines 1259-1260), then the
\* "processed += 1" at line 1266.
InsertionError ==
  /\ log' = AddLog(Idx, "insertion_error")
  /\ processed' = processed + 1
  /\ NextSlide

\* The timeline-clear loop (lines 1194-1202): Item(1) is deleted until the
\* sequence is empty or a Delete fails; k deletions happened.
ClearTimeline(tl, k) == SubSeq(tl, k + 1, Len(tl))

\* Lines 1183-1202: old VOX audio is removed, the timeline is cleared.
Attach ==
  /\ UNCHANGED original
  /\ pc = "attach"
  /\ \/ \* pp_pres.Slides(idx) or _delete_existing_vox_audio raised
        /\ Fault
        /\ log' = [log EXCEPT ![Idx] = @ \cup {"inserting", "insertion_error"}]
        /\ processed' = processed + 1
        /\ NextSlide
        /\ UNCHANGED <<timeline, voxShape>>
     \/ \E k \in 0..Len(delete_existing_vox_audio(timeline[Idx])) :
          /\ IF k = Len(delete_existing_vox_audio(timeline[Idx]))
               THEN NoFault ELSE Fault
          /\ timeline' = [timeline EXCEPT
                            ![Idx] = ClearTimeline(delete_existing_vox_audio(@), k)]
          /\ voxShape' = [voxShape EXCEPT ![Idx] = FALSE]
          /\ log' = [log EXCEPT ![Idx] = @ \cup {"inserting", "clearing"}]
          /\ pc' = "insert"
          /\ UNCHANGED <<i, processed>>
  /\ UNCHANGED <<uiVars, inputs, appVars, pureVars, manVars, audio_only, sel, pp_pres, animation_snapshots,
                 reqVars, runlog, savedTimeline, wav>>

\* Variant: the insert step looks at the cancel event and abandons the slide.
Insert_checks_cancel ==
  /\ UNCHANGED original
  /\ pc = "insert"
  /\ \/ /\ cancel_event
        /\ pc' = "summary"
        /\ UNCHANGED <<i, processed, log, voxShape, faults>>
     \/ /\ ~cancel_event
        /\ NoFault
        /\ voxShape' = [voxShape EXCEPT ![Idx] = TRUE]
        /\ log' = AddLog(Idx, "audio_shape")
        /\ pc' = "restore"
        /\ UNCHANGED <<i, processed>>
  /\ UNCHANGED <<uiVars, inputs, appVars, pureVars, manVars, audio_only, sel, pp_pres, animation_snapshots,
                 reqVars, runlog, timeline, savedTimeline, wav>>

\* Lines 1204-1231: AddMediaObject, falling back to AddMediaObject2.
Insert ==
  /\ UNCHANGED original
  /\ pc = "insert"
  /\ \/ \* both calls raised
        /\ Fault
        /\ InsertionError
        /\ UNCHANGED voxShape
     \/ /\ NoFault
        /\ voxShape' = [voxShape EXCEPT ![Idx] = TRUE]
        /\ log' = AddLog(Idx, "audio_shape")
        /\ pc' = "restore"
        /\ UNCHANGED <<i, processed>>
  /\ UNCHANGED <<uiVars, inputs, appVars, pureVars, manVars, audio_only, sel, pp_pres, animation_snapshots,
                 reqVars, runlog, timeline, savedTimeline, wav>>

\* Lines 1233-1253: restore from the snapshot, or the basic audio setup when
\* the snapshot is None.
Restore ==
  /\ UNCHANGED original
  /\ pc = "restore"
  /\ \/ \* restore_slide_animations / the basic setup raised
        /\ Fault
        /\ InsertionError
        /\ UNCHANGED timeline
     \/ /\ SnapshotGet(Idx).kind = "snapshot"
        /\ \/ \* success
              /\ NoFault
              /\ timeline' = [timeline EXCEPT
                                ![Idx] = restore_slide_animations(SnapshotGet(Idx))]
              /\ log' = AddLog(Idx, "restored")
           \/ \* it returned False: all-or-nothing, nothing was replayed
              /\ Fault
              /\ timeline' = [timeline EXCEPT ![Idx] = <<>>]
              /\ log' = AddLog(Idx, "restore_issues")
        /\ pc' = "save"
        /\ UNCHANGED <<i, processed>>
     \/ /\ SnapshotGet(Idx).kind = "None"
        /\ NoFault
        /\ timeline' = [timeline EXCEPT ![Idx] = append_media_play_after_previous(@)]
        /\ log' = AddLog(Idx, "snapshot_unavailable")
        /\ pc' = "save"
        /\ UNCHANGED <<i, processed>>
  /\ UNCHANGED <<uiVars, inputs, appVars, pureVars, manVars, audio_only, sel, pp_pres, animation_snapshots,
                 reqVars, runlog, voxShape, savedTimeline, wav>>

\* Variant: the slide is reported complete without the per-slide save.
Save_batched ==
  /\ UNCHANGED original
  /\ pc = "save"
  /\ NoFault
  /\ UNCHANGED savedTimeline
  /\ log' = AddLog(Idx, "complete")
  /\ processed' = processed + 1
  /\ NextSlide
  /\ UNCHANGED <<uiVars, inputs, appVars, pureVars, manVars, audio_only, sel, pp_pres, animation_snapshots,
                 reqVars, runlog, timeline, voxShape, wav>>

\* Lines 1255-1257 and 1266: "Save after each slide".
Save ==
  /\ UNCHANGED original
  /\ pc = "save"
  /\ \/ \* pp_pres.Save() raised
        /\ Fault
        /\ InsertionError
        /\ UNCHANGED savedTimeline
     \/ /\ NoFault
        /\ savedTimeline' = timeline
        /\ log' = AddLog(Idx, "complete")
        /\ processed' = processed + 1
        /\ NextSlide
  /\ UNCHANGED <<uiVars, inputs, appVars, pureVars, manVars, audio_only, sel, pp_pres, animation_snapshots,
                 reqVars, runlog, timeline, voxShape, wav>>

\* Lines 1268-1280: the counts an end-of-run message carries.  The texts of
\* the log line and of the message boxes are fixed strings: no count is
\* formatted into them ("processed" is incremented and never read).
SummaryCounts(tag) == {}

\* Lines 1268-1280: the end-of-run message.
Summary ==
  /\ pc = "summary"
  /\ runlog' = runlog \cup {IF cancel_event THEN "cancelled" ELSE "done"}
  /\ pc' = "finally"
  /\ UNCHANGED <<uiVars, inputs, appVars, pureVars, manVars, audio_only, sel, i, pp_pres, animation_snapshots,
                 reqVars, processed, log, docVars, faults>>

\* Variant: the cleanup saves only after a run that was not cancelled.
SavesAtCleanup_unless_cancelled ==
  ~audio_only /\ pp_pres /\ "cancelled" \notin runlog

\* Lines 1287-1289: "if not audio_only: ... if pp_pres:"
SavesAtCleanup == ~audio_only /\ pp_pres

\* Lines 1285-1293: the save of the cleanup.
FinalSave ==
  /\ UNCHANGED original
  /\ pc = "finally"
  /\ IF SavesAtCleanup
       THEN \/ /\ NoFault
               /\ savedTimeline' = timeline
               /\ runlog' = runlog \cup {"deck_saved"}
            \/ /\ Fault
               /\ runlog' = runlog \cup {"save_failed"}
               /\ UNCHANGED savedTimeline
       ELSE UNCHANGED <<savedTimeline, runlog, faults>>
  /\ pc' = "release"
  /\ UNCHANGED <<uiVars, inputs, appVars, pureVars, manVars, audio_only, sel, i, pp_pres, animation_snapshots,
                 reqVars, processed, log, timeline, voxShape, wav>>

\* Line 1295: start_button.configure(state="normal").  The worker still has
\* lines 1296-1297 to run.
EnableStart ==
  /\ pc = "release"
  /\ start_button' = "normal"
  /\ tailBtn' = tailBtn + 1
  /\ pc' = "done"
  /\ UNCHANGED <<cancel_button, cancel_event, tailClr, inputs, appVars, pureVars, manVars, audio_only, sel, i,
                 pp_pres, animation_snapshots, reqVars, processed, log,
                 runlog, docVars, faults>>

\* Line 1296: cancel_button.configure(state="disabled").
DisableCancel ==
  /\ tailBtn > 0
  /\ cancel_button' = "disabled"
  /\ tailBtn' = tailBtn - 1
  /\ tailClr' = tailClr + 1
  /\ UNCHANGED <<start_button, cancel_event, runVars, docVars, faults>>

\* Line 1297: cancel_event.clear().
ClearCancel ==
  /\ tailClr > 0
  /\ cancel_event' = FALSE
  /\ tailClr' = tailClr - 1
  /\ UNCHANGED <<start_button, cancel_button, tailBtn, runVars, docVars, faults>>

Next ==
  \/ OnRun
  \/ OnCancel
  \/ Validate
  \/ SnapshotSlide
  \/ SnapshotDone
  \/ StartSlide
  \/ LoopExit
  \/ Post
  \/ Convert
  \/ Attach
  \/ Insert
  \/ Restore
  \/ Save
  \/ Summary
  \/ FinalSave
  \/ EnableStart
  \/ DisableCancel
  \/ ClearCancel

Spec == Init /\ [][Next]_vars

\* The same run when the worker of the previous run has finished its
\* cleanup (no earlier worker is left between line 1295 and line 1297).
InitSolo == Init /\ tailBtn = 0 /\ tailClr = 0
SpecSolo == InitSolo /\ [][Next]_vars

(* ------------------- the run with its blocking calls ------------------ *)
\* run_hidden (lines 557-565) calls subprocess.run(cmd_list, **kwargs) with
\* stdout and stderr only: no timeout is passed, so the worker waits in it
\* until the child process exits.  At "ffmpeg" the worker is inside that
\* call.
WaitForFfmpeg ==
  /\ pc = "convert"
  /\ pc' = "ffmpeg"
  /\ UNCHANGED <<uiVars, inputs, appVars, pureVars, manVars, audio_only, sel, i,
                 pp_pres, animation_snapshots, reqVars, processed, log,
                 runlog, docVars, faults>>

\* The temp-file write of lines 1130-1131 raised: ffmpeg is never started.
TempWriteFails ==
  /\ ConvertAt("convert")
  /\ pc' = "finally"
  /\ UNCHANGED manVars

\* The child process exits (or could not be started) and subprocess.run
\* returns or raises: lines 1135-1179 as in Convert.  When this happens is
\* up to the child process.
FfmpegExits ==
  /\ ConvertAt("ffmpeg")
  /\ manifests' # manifests

\* The steps the worker thread takes by itself.  sess.post has
\* timeout=NET_TIMEOUT and time.sleep is finite (lines 1106-1116); the clear
\* loop stops at the first Delete that raises (lines 1196-1200).
WorkerStep ==
  \/ Validate
  \/ SnapshotSlide
  \/ SnapshotDone
  \/ StartSlide
  \/ LoopExit
  \/ Post
  \/ TempWriteFails
  \/ WaitForFfmpeg
  \/ Attach
  \/ Insert
  \/ Restore
  \/ Save
  \/ Summary
  \/ FinalSave
  \/ EnableStart
  \/ DisableCancel
  \/ ClearCancel

NextLive ==
  \/ OnRun
  \/ OnCancel
  \/ WorkerStep
  \/ FfmpegExits

\* The worker thread is scheduled as long as it has a step to take; nothing
\* in the code bounds the time the child process takes.
SpecLive == InitSolo /\ [][NextLive]_vars /\ WF_vars(WorkerStep)

\* The same with a transcoder that always exits.
SpecLiveFfmpegExits == SpecLive /\ WF_vars(FfmpegExits)


(* --------------- the functions that are checked on their own ---------- *)
\* No run, nothing pending, an empty deck.
RunAtRest ==
  /\ start_button = "normal" /\ cancel_button = "disabled"
  /\ cancel_event = FALSE /\ tailBtn = 0 /\ tailClr = 0
  /\ inputs = [api_key |-> <<"k">>, voice_id |-> <<"v">>,
               deck_is_file |-> TRUE, ffmpeg_available |-> TRUE]
  /\ audio_only = FALSE /\ sel = <<>> /\ i = 1 /\ pp_pres = FALSE
  /\ animation_snapshots = [s \in Slides |-> Absent]
  /\ attempts = 0 /\ resp = NoResponse /\ posts = <<>> /\ sleeps = <<>>
  /\ processed = 0
  /\ log = [s \in Slides |-> {}] /\ runlog = {}
  /\ timeline = [s \in Slides |-> <<>>]
  /\ voxShape = [s \in Slides |-> FALSE]
  /\ savedTimeline = timeline /\ original = timeline
  /\ wav = [s \in Slides |-> "none"]
  /\ faults = 0
  /\ run = 0 /\ session_ts = 1
  /\ manifests = [t \in Timestamps |-> NoFile]
  /\ checksums = [t \in Timestamps |-> NoChecksum]
  /\ appended = [t \in Timestamps |-> <<>>]

\* The application at rest.
AtRest == RunAtRest /\ AppAtRest

\* No function of the run is being computed.
PureAtRest ==
  /\ total = NumSlides /\ spec = <<>> /\ selected = <<>>
  /\ text = <<>> /\ shapes = <<>> /\ extract_raises = FALSE /\ note = <<>>

\* The state of a narration run.
narrationVars == <<uiVars, pc, inputs, pureVars, manVars, audio_only, sel, i,
                   pp_pres, animation_snapshots, reqVars, processed, log,
                   runlog, docVars, faults>>
\* Everything but the settings, the vault and the startup of main.
nonAppVars == <<narrationVars, voiceVars, previewVars>>

\* All texts of at most n elements over an alphabet.
TextsUpTo(alphabet, n) == UNION { [1..k -> alphabet] : k \in 0..n }

\* Notes texts: the three parts of the marker, a blank, other text.
NoteAlphabet == {"###", "read", "slide", " ", "x"}
NotesTexts == TextsUpTo(NoteAlphabet, MaxNoteLen)

Shape(kind, top, left, txt) ==
  [kind |-> kind, top |-> top, left |-> left, text |-> txt]

\* Slides the notes are resolved against: no shape; a title only; a text
\* box of blanks; boxes out of reading order around a title and a table; a
\* box that itself spells the marker; boxes with a backslash in the text.
SlideShapes ==
  { <<>>,
    <<Shape("title", 0, 0, <<"x">>)>>,
    <<Shape("text", 0, 0, <<" ">>)>>,
    <<Shape("text", 1, 0, <<"y">>), Shape("title", 0, 0, <<"x">>),
      Shape("text", 0, 1, <<"x", " ">>), Shape("table", 0, 0, <<"y">>),
      Shape("text", 0, 0, <<"x", "x">>)>>,
    <<Shape("text", 0, 0, <<"###", " ", "read", "slide">>)>>,
    <<Shape("text", 0, 0, <<"x", "\\", "n", "y">>)>>,
    <<Shape("text", 0, 0, <<"\\", "x">>)>> }

InitNotes ==
  /\ AtRest
  /\ pc = "resolve_notes"
  /\ text \in NotesTexts
  /\ shapes \in SlideShapes
  /\ extract_raises \in BOOLEAN
  /\ note = <<>>
  /\ total = NumSlides /\ spec = <<>> /\ selected = <<>>

\* Lines 1061-1095 for one slide: the notes are resolved; empty notes skip
\* the slide, anything else becomes the "text" of the payload.
ResolveNotes ==
  /\ pc = "resolve_notes"
  /\ note' = ResolveNote(text, shapes, extract_raises)
  /\ pc' = IF note' = <<>> THEN "skip_no_notes" ELSE "payload"
  /\ UNCHANGED <<uiVars, inputs, appVars, manVars, total, spec, selected, text, shapes,
                 extract_raises, audio_only, sel, i, pp_pres,
                 animation_snapshots, reqVars, processed, log, runlog,
                 docVars, faults>>

NextNotes == ResolveNotes
SpecNotes == InitNotes /\ [][NextNotes]_vars

\* Range expressions: every text of at most MaxSpecLen characters, and the
\* expressions of the documentation.
SpecAlphabet == {"0", "1", "3", "-", ",", " ", "x"}
RangeExamples ==
  { <<"3", "-", "6", ",", "1", ",", "2", "0">>,
    <<"1", "-", "3", ",", "5", ",", "8", "-", "1", "0">>,
    <<"x", "-", "5">>, <<"3", "-", "y">>, <<"7", "-">>, <<"-", "4">>,
    <<" ", "2", " ", "-", " ", "4", " ", ",", "9">> }

InitSelect ==
  /\ AtRest
  /\ pc = "select_slides"
  /\ \/ total \in 0..MaxTotal /\ spec \in TextsUpTo(SpecAlphabet, MaxSpecLen)
     \/ total = 10 /\ spec \in RangeExamples \cup {<<>>}
  /\ selected = <<>>
  /\ text = <<>> /\ shapes = <<>> /\ extract_raises = FALSE /\ note = <<>>

\* Line 950: sel = select_slides(total, slide_range_spec or "")
SelectSlides ==
  /\ pc = "select_slides"
  /\ selected' = select_slides(total, spec)
  /\ pc' = "selected"
  /\ UNCHANGED <<uiVars, inputs, appVars, manVars, total, spec, text, shapes, extract_raises,
                 note, audio_only, sel, i, pp_pres, animation_snapshots,
                 reqVars, processed, log, runlog, docVars, faults>>

NextSelect == SelectSlides
SpecSelect == InitSelect /\ [][NextSelect]_vars

\* The manifest over the runs of one deck: each run takes its timestamp,
\* goes through its selected slides in order and appends a record for each
\* slide whose synthesis ended with a 200.
InitManifest ==
  /\ AtRest
  /\ pc = "idle"
  /\ total = NumSlides /\ spec = <<>> /\ selected = <<>>
  /\ text = <<>> /\ shapes = <<>> /\ extract_raises = FALSE /\ note = <<>>

\* Lines 924-926 and 950: a run starts; the clock does not go back.
BeginRun ==
  /\ pc = "idle"
  /\ run < MaxRuns
  /\ \E ts \in Timestamps : ts >= session_ts /\ BeginSession(ts)
  /\ sel' \in Selections
  /\ i' = 1
  /\ pc' = "recording"
  /\ UNCHANGED <<uiVars, inputs, appVars, pureVars, audio_only, pp_pres,
                 animation_snapshots, reqVars, processed, log, runlog,
                 docVars, faults>>

\* Lines 1125-1155: the slide in progress got a 200.
RecordSlide ==
  /\ pc = "recording"
  /\ i <= Len(sel)
  /\ \E io \in ManifestIO :
       manifest_append(session_ts, ManifestRecord(Idx, 200, run), io)
  /\ i' = i + 1
  /\ UNCHANGED <<uiVars, pc, inputs, appVars, pureVars, run, session_ts, audio_only,
                 sel, pp_pres, animation_snapshots, reqVars, processed, log,
                 runlog, docVars, faults>>

\* Lines 1087-1090, 1120-1123, 1262-1264: the slide in progress ends
\* without a 200 (no notes, network error, API error).
PassSlide ==
  /\ pc = "recording"
  /\ i <= Len(sel)
  /\ i' = i + 1
  /\ UNCHANGED <<uiVars, pc, inputs, appVars, pureVars, manVars, audio_only, sel,
                 pp_pres, animation_snapshots, reqVars, processed, log,
                 runlog, docVars, faults>>

\* Lines 1056-1059 and 1285-1297: the loop is left (exhausted or cancelled)
\* and the worker ends.
EndRun ==
  /\ pc = "recording"
  /\ pc' = "idle"
  /\ UNCHANGED <<uiVars, inputs, appVars, pureVars, manVars, audio_only, sel, i,
                 pp_pres, animation_snapshots, reqVars, processed, log,
                 runlog, docVars, faults>>

NextManifest == BeginRun \/ RecordSlide \/ PassSlide \/ EndRun
SpecManifest == InitManifest /\ [][NextManifest]_vars

(* --------------------- startup of main: the settings ------------------ *)
\* What a settings file left by an earlier version can hold.
LegacyKeys ==
  {Missing, Value(<<>>), Value(<<" ">>), Value(<<"k">>), Value(<<" ", "k">>)}
LegacyFiles ==
  {NoSettingsFile, CorruptFile}
    \cup { SettingsFileOf([api_key |-> a, voice_id |-> v]) :
             a \in LegacyKeys, v \in {Missing, Value(<<"v">>)} }

InitMigrate ==
  /\ RunAtRest
  /\ pc = "idle"
  /\ PureAtRest
  /\ settings_file \in LegacyFiles
  /\ fallback_file = NoSettingsFile
  /\ vault \in {Missing, Value(<<"o">>)}
  /\ settings = EmptyDict
  /\ startup = "load"
  /\ migrated = Missing
  /\ startup_fetch_key = Missing
  /\ cache_file = NoCache /\ now = 0
  /\ voices_map = <<>> /\ voice_id_var = ""
  /\ bg = BgIdle /\ after_update_ui = NoUpdate /\ after_refresh = FALSE
  /\ acct_state = "Logged in"
  /\ PreviewAtRest

\* Line 1304: settings = load_settings()
LoadAtStartup ==
  /\ startup = "load"
  /\ \E readable \in BOOLEAN :
       settings' = load_settings(settings_file, readable)
  /\ startup' = "migrate"
  /\ UNCHANGED <<settings_file, fallback_file, vault, migrated,
                 startup_fetch_key, nonAppVars>>

\* Lines 1306-1313: "Migrate plaintext api_key from settings to OS vault".
Migrate ==
  /\ startup = "migrate"
  /\ IF Truthy(settings.api_key)
       THEN \E keyring_ok \in BOOLEAN, io \in SettingsIO :
              LET popped == [settings EXCEPT !.api_key = Missing]
              IN /\ set_api_key(settings.api_key.value, keyring_ok)
                 /\ migrated' = settings.api_key
                 /\ settings' = popped
                 /\ save_settings(popped, io)
       ELSE UNCHANGED <<settings_file, fallback_file, vault, settings,
                        migrated>>
  /\ startup' = "ui"
  /\ UNCHANGED <<startup_fetch_key, nonAppVars>>

\* Lines 2054-2058: saved = load_settings(); the voices are fetched with
\* saved["api_key"] when the saved settings hold one.
StartupFetch ==
  /\ startup = "ui"
  /\ \E readable \in BOOLEAN :
       LET saved == load_settings(settings_file, readable)
       IN startup_fetch_key' =
            IF saved.api_key.present /\ Strip(saved.api_key.value) # <<>>
              THEN Value(Strip(saved.api_key.value))
              ELSE Missing
  /\ startup' = "running"
  /\ UNCHANGED <<settings_file, fallback_file, vault, settings, migrated,
                 nonAppVars>>

NextMigrate == LoadAtStartup \/ Migrate \/ StartupFetch
SpecMigrate == InitMigrate /\ [][NextMigrate]_vars

(* ------------------- voices: cache, list and refresh ------------------ *)
\* The keys a user logs in with.
Keys == {<<"a">>, <<"b">>}

\* The window is up and async_load_voices_on_startup is scheduled; the
\* cache file is one that save_voice_cache wrote in an earlier session.
InitVoices ==
  /\ RunAtRest
  /\ pc = "idle"
  /\ PureAtRest
  /\ settings_file = NoSettingsFile /\ fallback_file = NoSettingsFile
  /\ settings = EmptyDict /\ migrated = Missing
  /\ startup_fetch_key = Missing
  /\ startup = "window"
  /\ vault \in {Missing, Value(<<"a">>)}
  /\ acct_state = IF vault.present THEN "Logged in" ELSE "Logged out"
  /\ cache_file \in
       IF vault.present
         THEN {NoCache} \cup { Cache(Hash(k), 0, AccountVoices(k)) : k \in Keys }
         ELSE {NoCache}
  /\ now = 0
  /\ voices_map = <<>> /\ voice_id_var = ""
  /\ bg = BgIdle /\ after_update_ui = NoUpdate /\ after_refresh = FALSE
  /\ PreviewAtRest

\* What the voice handlers leave alone.
voiceFrame == <<narrationVars, previewVars, settings, migrated,
                startup_fetch_key>>

\* The moments the clock is read at: the start, and the seconds around one
\* week later.
Instants == {0} \cup { WEEK_SECONDS + d : d \in (0 - MaxSkew)..MaxSkew }

\* The clock goes on.
Tick ==
  /\ \E t \in Instants :
       /\ t > now
       /\ now' = t
  /\ UNCHANGED <<voiceFrame, settings_file, fallback_file, startup, vault,
                 cache_file, voices_map, voice_id_var, bg, after_update_ui,
                 after_refresh, acct_state>>

\* on_refresh_voices (lines 1771-1802) with the vault as it is when the
\* handler runs: the voices are fetched and shown, and save_voice_cache
\* (lines 447-470) stamps them with the hash of the key in the vault.
RefreshVoices(v, fetched, written) ==
  LET k == ApiKeyOf(v)
      items == AccountVoices(k)
  IN IF k = <<>> \/ ~fetched
       THEN UNCHANGED <<voices_map, voice_id_var, cache_file>>
       ELSE /\ voices_map' = items
            /\ voice_id_var' = FirstVoiceId(items)
            /\ cache_file' = IF written THEN Cache(Hash(k), now, items)
                              ELSE cache_file

\* async_load_voices_on_startup (lines 2089-2115) with
\* load_voices_from_cache (lines 1804-1845).
StartupLoad ==
  /\ startup = "window"
  /\ startup' = "running"
  /\ IF get_api_key = <<>>
       THEN UNCHANGED <<voices_map, voice_id_var, bg, after_refresh>>
     ELSE IF load_voice_cache.exists /\ load_voice_cache.voices # <<>>
       THEN /\ voices_map' = load_voice_cache.voices
            /\ voice_id_var' = FirstVoiceId(load_voice_cache.voices)
            /\ bg' = [BgIdle EXCEPT !.pc = "start"]
            /\ UNCHANGED after_refresh
     ELSE /\ after_refresh' = TRUE
          /\ UNCHANGED <<voices_map, voice_id_var, bg>>
  /\ UNCHANGED <<voiceFrame, settings_file, fallback_file, vault, cache_file,
                 now, after_update_ui, acct_state>>

\* The on_refresh_voices call scheduled at line 2111 is served.
ServeRefresh ==
  /\ after_refresh
  /\ after_refresh' = FALSE
  /\ \E fetched \in BOOLEAN, written \in BOOLEAN :
       RefreshVoices(vault, fetched, written)
  /\ UNCHANGED <<voiceFrame, settings_file, fallback_file, startup, vault,
                 now, bg, after_update_ui, acct_state>>

\* do_login (lines 1390-1465) when a key was submitted.
DoLogin ==
  /\ startup = "running"
  /\ \E key \in Keys, keyring_ok \in BOOLEAN, fetched \in BOOLEAN,
        written \in BOOLEAN :
       /\ set_api_key(key, keyring_ok)
       /\ RefreshVoices(vault', fetched, written)
  /\ acct_state' = "Logged in"
  /\ UNCHANGED <<voiceFrame, settings_file, fallback_file, startup, now, bg,
                 after_update_ui, after_refresh>>

\* do_logout (lines 1467-1490); delete_api_key and delete_voice_cache
\* swallow their exceptions.
DoLogout ==
  /\ startup = "running"
  /\ \E key_deleted \in BOOLEAN, cache_deleted \in BOOLEAN :
       /\ vault' = IF key_deleted THEN Missing ELSE vault
       /\ cache_file' = IF cache_deleted THEN NoCache ELSE cache_file
  /\ voices_map' = <<>>
  /\ voice_id_var' = ""
  /\ acct_state' = "Logged out"
  /\ settings_file' = NoSettingsFile
  /\ fallback_file' = NoSettingsFile
  /\ UNCHANGED <<voiceFrame, startup, now, bg, after_update_ui,
                 after_refresh>>

\* update_ui (lines 1872-1900), served by the main loop.
UpdateUi ==
  /\ after_update_ui.scheduled
  /\ voices_map' = after_update_ui.fresh_items
  /\ voice_id_var' = FirstVoiceId(after_update_ui.fresh_items)
  /\ after_update_ui' = NoUpdate
  /\ UNCHANGED <<voiceFrame, settings_file, fallback_file, startup, vault,
                 cache_file, now, bg, after_refresh, acct_state>>

\* What the refresh thread leaves alone.
bgFrame == <<voiceFrame, settings_file, fallback_file, startup, vault, now,
             voices_map, voice_id_var, after_refresh, acct_state>>

\* The thread has ended.
BgDone == [BgIdle EXCEPT !.pc = "done"]

\* Lines 1853-1855: k = get_api_key().strip(); if not k: return
BgReadKey ==
  /\ bg.pc = "start"
  /\ bg' = IF get_api_key = <<>> THEN BgDone
            ELSE [bg EXCEPT !.pc = "fetch", !.k = get_api_key]
  /\ UNCHANGED <<bgFrame, cache_file, after_update_ui>>

\* Line 1858: fresh_items = fetch_voices(k); an exception ends the thread
\* (lines 1908-1910).
BgFetch ==
  /\ bg.pc = "fetch"
  /\ \E fetched \in BOOLEAN :
       bg' = IF fetched
               THEN [bg EXCEPT !.pc = "compare",
                               !.fresh_items = AccountVoices(bg.k)]
               ELSE BgDone
  /\ UNCHANGED <<bgFrame, cache_file, after_update_ui>>

\* Lines 1861-1865: the cache is loaded and compared with the fresh list.
BgCompare ==
  /\ bg.pc = "compare"
  /\ bg' = [bg EXCEPT
              !.pc = "save",
              !.changed = voices_changed(load_voice_cache.voices,
                                         bg.fresh_items)]
  /\ UNCHANGED <<bgFrame, cache_file, after_update_ui>>

\* Lines 1870-1902: root.after(0, update_ui) when the voices changed.
ScheduleUpdate ==
  after_update_ui' =
    IF bg.changed
      THEN [scheduled |-> TRUE, fresh_items |-> bg.fresh_items]
      ELSE after_update_ui

\* save_voice_cache, lines 450-452: current_key = get_api_key(); without a
\* key nothing is written.
BgSaveReadKey ==
  /\ bg.pc = "save"
  /\ IF get_api_key = <<>>
       THEN /\ bg' = BgDone
            /\ ScheduleUpdate
       ELSE /\ bg' = [bg EXCEPT !.pc = "write", !.current_key = get_api_key]
            /\ UNCHANGED after_update_ui
  /\ UNCHANGED <<bgFrame, cache_file>>

\* save_voice_cache, lines 453-470: the cache file is written (an
\* exception is swallowed).
BgSaveWrite ==
  /\ bg.pc = "write"
  /\ \E written \in BOOLEAN :
       cache_file' = IF written
                       THEN Cache(Hash(bg.current_key), now, bg.fresh_items)
                       ELSE cache_file
  /\ bg' = BgDone
  /\ ScheduleUpdate
  /\ UNCHANGED bgFrame

NextVoices ==
  \/ Tick
  \/ StartupLoad
  \/ ServeRefresh
  \/ DoLogin
  \/ DoLogout
  \/ UpdateUi
  \/ BgReadKey
  \/ BgFetch
  \/ BgCompare
  \/ BgSaveReadKey
  \/ BgSaveWrite
SpecVoices == InitVoices /\ [][NextVoices]_vars

(* --------------------------- PreviewPlayer ---------------------------- *)
\* The application at rest, on Windows or on another platform.
InitPreview ==
  /\ RunAtRest
  /\ pc = "idle"
  /\ PureAtRest
  /\ settings_file = NoSettingsFile /\ fallback_file = NoSettingsFile
  /\ vault = Value(<<"k">>) /\ settings = EmptyDict
  /\ startup = "running" /\ migrated = Missing
  /\ startup_fetch_key = Missing
  /\ cache_file = NoCache /\ now = 0
  /\ voices_map = <<>> /\ voice_id_var = ""
  /\ bg = BgIdle /\ after_update_ui = NoUpdate /\ after_refresh = FALSE
  /\ acct_state = "Logged in"
  /\ PlayerAtRest
  /\ winsound \in BOOLEAN

\* What the player's methods leave alone.
previewFrame == <<narrationVars, settingsVars, vault, voiceVars, winsound>>

\* The threads that use the player: the one that calls its methods (the
\* main thread) and the preview worker.
Threads == {"caller", "worker"}

\* preview() (lines 709-765): nothing while a worker is alive; otherwise a
\* worker thread is started.
Preview ==
  /\ caller = "idle"
  /\ thread \in {"none", "dead"}
  /\ thread' = "started"
  /\ UNCHANGED <<previewFrame, lock, temp_path, temp_file, sound,
                 preview_btn, caller>>

\* Lines 714-735: the button is disabled and the preview is requested; a
\* missing key or voice, a response other than 200 or an exception leads to
\* the finally block.
WorkerRequest ==
  /\ thread = "started"
  /\ preview_btn' = "disabled"
  /\ \E ok \in BOOLEAN : thread' = IF ok THEN "convert" ELSE "finally"
  /\ UNCHANGED <<previewFrame, lock, temp_path, temp_file, sound, caller>>

\* Lines 738-752: the response is converted into a temp file and
\* self._temp_path is set (without the lock); an exception leads to the
\* finally block with the file left on disk.
WorkerConvert ==
  /\ thread = "convert"
  /\ temp_file' = TRUE
  /\ \E ok \in BOOLEAN :
       IF ok THEN /\ temp_path' = TRUE
                  /\ sound' = TRUE
                  /\ thread' = "playing"
       ELSE /\ thread' = "finally"
            /\ UNCHANGED <<temp_path, sound>>
  /\ UNCHANGED <<previewFrame, lock, preview_btn, caller>>

\* Lines 753-754: _play_wav_sync returns when the sound has ended or was
\* stopped.
WorkerPlayed ==
  /\ thread = "playing"
  /\ sound' = FALSE
  /\ thread' = "finally"
  /\ UNCHANGED <<previewFrame, lock, temp_path, temp_file, preview_btn,
                 caller>>

\* stop() is called (line 680).
CallStop ==
  /\ caller = "idle"
  /\ caller' = "stop"
  /\ UNCHANGED <<previewFrame, lock, temp_path, temp_file, sound,
                 preview_btn, thread>>

\* Line 681, "with self._lock:" of stop: the lock is acquired.
StopAcquire ==
  /\ caller = "stop"
  /\ lock = "free"
  /\ lock' = "caller"
  /\ caller' = "stop_locked"
  /\ UNCHANGED <<previewFrame, temp_path, temp_file, sound, preview_btn,
                 thread>>

\* Lines 682-687: playback is stopped (winsound.PlaySound(None, 0), on
\* Windows only), then self._cleanup_temp() is called
\* with the lock held.
StopSound ==
  /\ caller = "stop_locked"
  /\ sound' = IF winsound THEN FALSE ELSE sound
  /\ caller' = "cleanup"
  /\ UNCHANGED <<previewFrame, lock, temp_path, temp_file, preview_btn,
                 thread>>

\* Where a thread is when it is about to enter _cleanup_temp, and when it
\* holds the lock inside it.
AtCleanup(t) ==
  IF t = "caller" THEN caller = "cleanup" ELSE thread = "finally"
InCleanup(t) ==
  IF t = "caller" THEN caller = "cleanup_locked"
  ELSE thread = "cleanup_locked"

\* Line 690, "with self._lock:" of _cleanup_temp: threading.Lock is not
\* reentrant, the lock is acquired only when nobody holds it.
CleanupAcquire ==
  \E t \in Threads :
    /\ AtCleanup(t)
    /\ lock = "free"
    /\ lock' = t
    /\ IF t = "caller"
         THEN caller' = "cleanup_locked" /\ UNCHANGED thread
         ELSE thread' = "cleanup_locked" /\ UNCHANGED caller
    /\ UNCHANGED <<previewFrame, temp_path, temp_file, sound, preview_btn>>

\* Lines 691-696: the temp file is removed (an exception is swallowed),
\* _temp_path is reset and the lock is released.  The caller of stop then
\* leaves stop; the worker goes on in its finally block.
CleanupBody ==
  \E t \in Threads :
    /\ InCleanup(t)
    /\ lock = t
    /\ \E removed \in BOOLEAN :
         temp_file' = IF temp_path /\ temp_file /\ removed THEN FALSE
                      ELSE temp_file
    /\ temp_path' = FALSE
    /\ lock' = "free"
    /\ IF t = "caller"
         THEN caller' = "idle" /\ UNCHANGED thread
         ELSE thread' = "buttons" /\ UNCHANGED caller
    /\ UNCHANGED <<previewFrame, sound, preview_btn>>

\* Lines 760-762: the Preview button is enabled again and the worker ends.
WorkerEnd ==
  /\ thread = "buttons"
  /\ preview_btn' = "normal"
  /\ thread' = "dead"
  /\ UNCHANGED <<previewFrame, lock, temp_path, temp_file, sound, caller>>

\* The steps the threads take by themselves once a method was called.
PlayerStep ==
  \/ WorkerRequest
  \/ WorkerConvert
  \/ WorkerPlayed
  \/ StopAcquire
  \/ StopSound
  \/ CleanupAcquire
  \/ CleanupBody
  \/ WorkerEnd

NextPreview == Preview \/ CallStop \/ PlayerStep

\* Both threads are scheduled as long as they have a step to take.
SpecPreview == InitPreview /\ [][NextPreview]_vars /\ WF_vars(PlayerStep)

(* ============================== claims ================================ *)
Selected == { sel[j] : j \in 1..Len(sel) }

\* The worker has left the slide loop and run the save of its cleanup.
RunOver == pc \in {"release", "done"}

\* The effects of a timeline that are not narration audio.
OwnEffects(tl) == SeqFilter(tl, Categories \ {"audio"})

\* The log lines that end the processing of a slide.
TerminalTags ==
  {"skip_no_notes", "network_error", "api_error", "audio_only",
   "skip_attachment", "complete", "insertion_error"}
Started(s) == log[s] \cap {"skip_no_notes", "generating"} # {}
Terminal(s) == log[s] \cap TerminalTags # {}

(* C1: on every exit path of a run, every slide whose timeline the worker  *)
(* cleared either had its restore completed or has a snapshot of its       *)
(* original timeline captured before the clear; also a slide whose         *)
(* up-front snapshot capture failed.                                       *)
C1_ClearedIsRestoredOrBackedUp ==
  RunOver =>
    \A s \in Selected :
      ("clearing" \in log[s] /\ OwnEffects(original[s]) # <<>>)
        => \/ "restored" \in log[s]
           \/ animation_snapshots[s].kind = "snapshot"

(* C2: no save of the document, per slide or in the cleanup, happens while *)
(* some slide has its timeline cleared or its audio inserted and its       *)
(* restore not successfully finished.                                      *)
Intermediate(s) ==
  /\ "clearing" \in log[s]
  /\ "restored" \notin log[s]
  /\ "snapshot_unavailable" \notin log[s]
DocumentSaved ==
  \/ pc = "save" /\ "complete" \in log'[Idx]
  \/ pc = "finally" /\ "deck_saved" \in runlog'
C2_SaveOnlyAfterCompleteSequence ==
  [][DocumentSaved => \A s \in Slides : ~Intermediate(s)']_vars

Processing(s) == log[s] \ {"backed_up", "backup_failed"} # {}

AttachCompleted(s) ==
  /\ log[s] \cap {"restored", "restore_issues", "snapshot_unavailable"} # {}
  /\ "insertion_error" \notin log[s]

(* C5: the document is saved after each slide's attach sequence, not at the *)
(* end of the run: once the attach sequence of the N-th selected slide has  *)
(* completed and the loop has moved past it, the saved document holds the   *)
(* timelines of selected slides 1..N as they are.                           *)
C5_SavedAfterEachSlide ==
  \A n \in 1..Len(sel) :
    (AttachCompleted(sel[n]) /\ i > n)
      => \A m \in 1..n : savedTimeline[sel[m]] = timeline[sel[m]]

\* The first slide is attached, the second is in its synthesis, the save of
\* the cleanup is still to come.
C5_Witness ==
  /\ Len(sel) = 2
  /\ i = 2
  /\ pc = "post"
  /\ AttachCompleted(sel[1])
  /\ HasAudio(savedTimeline[sel[1]])
  /\ savedTimeline[sel[1]] # original[sel[1]]

\* The worker is inside the processing of one slide.
InFlight == {"post", "convert", "attach", "insert", "restore", "save"}
SlideStep == Post \/ Convert \/ Attach \/ Insert \/ Restore \/ Save

(* C6: a cancellation that is pending while a slide is in flight does not   *)
(* interrupt the slide: its next step can be taken, and the worker leaves   *)
(* the slide's steps only with the slide in a terminal state, back at the   *)
(* loop head, or through a fatal error of the transcoder.                   *)
C6_CancelOnlyAtSlideBoundary ==
  [][(pc \in InFlight /\ cancel_event)
       => /\ ENABLED SlideStep
          /\ pc' # pc =>
               \/ pc' \in InFlight /\ i' = i
               \/ /\ pc' = "loop"
                  /\ i' = i + 1
                  /\ \E s \in Slides : s = sel[i] /\ log'[s] \cap TerminalTags # {}
               \/ /\ pc' = "finally"
                  /\ pc = "convert"
                  /\ "fatal_error" \in runlog'
    ]_vars

\* Cancel was clicked during this run, the event is set, and the slide in
\* flight has had its animations restored and is about to be saved.
C6_Witness ==
  /\ pc = "save"
  /\ cancel_event
  /\ "cancelling" \in runlog
  /\ "restored" \in log[Idx]

(* C7: once Cancel has been clicked in this run, cancellation stays in      *)
(* effect: at the head of the slide loop no further slide is started, no    *)
(* request is made, no file or timeline changes and the processed count     *)
(* stays as it is.                                                          *)
C7_NoSlideStartsAfterCancel ==
  [][("cancelling" \in runlog /\ pc = "loop")
       => /\ pc' # "post"
          /\ log' = log
          /\ processed' = processed
          /\ timeline' = timeline
          /\ wav' = wav]_vars

\* Attempts were made for the slide and each of them ended in outcome o.
AllPosts(o) == posts # <<>> /\ \A k \in 1..Len(posts) : posts[k] = o
\* The slide loop is back at its head after the slide at position i - 1.
BackAtLoopWith(tag) ==
  /\ pc = "loop"
  /\ i > 1
  /\ tag \in log[sel[i - 1]]

(* C8: when every response for a slide is a 500 the client makes exactly 3  *)
(* POST attempts and then reports an API error for the slide; when the      *)
(* first response is a 400 it makes exactly 1 attempt.                      *)
C8_AttemptsOn500AndOn400 ==
  /\ AllPosts(Response(500)) =>
       IF pc = "post"
         THEN Len(posts) < 3 /\ attempts = Len(posts)
         ELSE Len(posts) = 3 /\ BackAtLoopWith("api_error")
  /\ (posts # <<>> /\ posts[1] = Response(400)) =>
       /\ Len(posts) = 1
       /\ BackAtLoopWith("api_error")

\* Three 500 responses were received and the slide failed.
C8_Witness ==
  /\ posts = <<Response(500), Response(500), Response(500)>>
  /\ BackAtLoopWith("api_error")
  /\ processed = 1

\* Outcome classes of one attempt.
Is4xxOutcome(o) == o.kind = "response" /\ o.status_code \in 400..499
Is5xxOutcome(o) == o.kind = "response" /\ o.status_code \in 500..599
IsTransportOutcome(o) == o.kind \in {"timeout", "connection_error"}

(* C9: for any sequence of outcomes a slide's synthesis makes at most 3     *)
(* attempts; every attempt but the last ended in a 5xx response or a        *)
(* transport error (so none follows a 200 or a 4xx); after a 4xx the slide  *)
(* is reported as failed and the worker is back at the loop head.           *)
C9_RetryPolicy ==
  /\ Len(posts) <= 3
  /\ attempts <= 3
  /\ \A k \in 1..(Len(posts) - 1) :
       Is5xxOutcome(posts[k]) \/ IsTransportOutcome(posts[k])
  /\ (posts # <<>> /\ Is4xxOutcome(posts[Len(posts)])) =>
       BackAtLoopWith("api_error")

\* A transport error, then a 500, then a 400 that fails the slide.
C9_Witness ==
  /\ Len(posts) = 3
  /\ IsTransportOutcome(posts[1])
  /\ posts[2] = Response(500)
  /\ posts[3] = Response(400)
  /\ BackAtLoopWith("api_error")

(* C10: a timeout of a synthesis request uses up one attempt; before the    *)
(* third attempt it is followed by another attempt, on the third attempt    *)
(* the slide ends as a network failure and the worker is back at the loop   *)
(* head.                                                                    *)
C10_TimeoutIsTransportError ==
  \A k \in 1..Len(posts) :
    posts[k] = Raised("timeout") =>
      IF k < 3
        THEN k < Len(posts) \/ (pc = "post" /\ attempts = k)
        ELSE BackAtLoopWith("network_error")

\* Three timeouts in a row ended the slide as a network failure.
C10_Witness ==
  /\ posts = <<Raised("timeout"), Raised("timeout"), Raised("timeout")>>
  /\ BackAtLoopWith("network_error")

\* The reports that end a run before any slide work.
AbortTags ==
  {"missing_api_key", "missing_voice", "deck_not_found", "ffmpeg_not_found",
   "open_failed", "no_slides_selected", "com_open_failed"}
CancelTags == {"cancelling", "run_cancelled", "cancelled"}

(* C11: a per-slide error never aborts the run: when a run that passed      *)
(* validation and was not cancelled is over, every selected slide has       *)
(* reached a terminal state, whatever failed on the way.                    *)
C11_SlideErrorNeverAbortsRun ==
  (RunOver /\ runlog \cap AbortTags = {} /\ runlog \cap CancelTags = {})
    => \A s \in Selected : Terminal(s)

\* The text has no character other than whitespace.
Blank(s) == \A k \in 1..Len(s) : s[k] = " "
\* Everything a run can report to the user as its outcome.
OutcomeReports == AbortTags \cup {"fatal_error", "done", "cancelled"}

(* C12: when the API key or the voice id is empty, the deck file is         *)
(* missing, ffmpeg is absent or the document fails to open (python-pptx or  *)
(* COM), the worker goes from validation straight to its cleanup: no        *)
(* request was sent, no audio or manifest file written, no snapshot taken,  *)
(* no slide changed or saved, and exactly one report was made, the error.   *)
C12_ValidationAbortsBeforeSlideWork ==
  ( /\ pc \notin {"idle", "validate"}
    /\ \/ Blank(inputs.api_key)
       \/ Blank(inputs.voice_id)
       \/ ~inputs.deck_is_file
       \/ ~inputs.ffmpeg_available
       \/ runlog \cap {"open_failed", "com_open_failed"} # {} )
  => /\ pc \in {"finally", "release", "done"}
     /\ Cardinality(runlog \cap OutcomeReports) = 1
     /\ runlog \cap OutcomeReports \subseteq AbortTags \ {"no_slides_selected"}
     /\ Blank(inputs.api_key) => "missing_api_key" \in runlog
     /\ "deck_saved" \notin runlog
     /\ posts = <<>> /\ attempts = 0 /\ processed = 0
     /\ \A s \in Slides :
          /\ log[s] = {}
          /\ wav[s] # "new"
          /\ animation_snapshots[s] = Absent
          /\ voxShape[s] = HasAudio(original[s])
     /\ timeline = original
     /\ savedTimeline = original
     /\ manifests[session_ts] = NoFile
     /\ checksums[session_ts] = NoChecksum

\* A run with a key of blanks only has ended with the one report.
C12_Witness ==
  /\ pc = "done"
  /\ inputs.api_key = <<" ">>
  /\ runlog = {"missing_api_key"}

\* The log lines of the steps that read or change the host document.
DocumentTags ==
  {"backed_up", "backup_failed", "inserting", "clearing", "audio_shape",
   "restored", "restore_issues", "snapshot_unavailable", "complete",
   "insertion_error", "skip_attachment"}

HasText(effects) == \E k \in 1..Len(effects) : effects[k] = "text"
AttachTags ==
  {"inserting", "clearing", "audio_shape", "restored", "restore_issues",
   "snapshot_unavailable", "complete", "insertion_error"}

(* C14: outside audio-only mode a slide whose snapshot holds a text-content *)
(* effect is never attached to; for a converted slide with a snapshot the   *)
(* attachment is skipped exactly when the snapshot holds such an effect;    *)
(* and a skipped slide keeps the timeline that was captured and its shapes, *)
(* none of the attach steps ran for it, and its audio file is on disk.      *)
C14_SkipOnTextAnimation ==
  \A s \in Slides :
    LET snap == animation_snapshots[s] IN
    /\ (log[s] \cap AttachTags # {})
         => ~(snap.kind = "snapshot" /\ HasText(snap.effects))
    /\ (~audio_only /\ "converted" \in log[s] /\ snap.kind = "snapshot")
         => ("skip_attachment" \in log[s] <=> HasText(snap.effects))
    /\ "skip_attachment" \in log[s]
         => /\ log[s] \cap AttachTags = {}
            /\ snap.kind = "snapshot"
            /\ timeline[s] = snap.effects
            /\ voxShape[s] = HasAudio(original[s])
            /\ faults = 0 => wav[s] = "new"

\* A slide with a text animation was skipped, its audio file is written and
\* the run went on to attach the audio of the next slide.
C14_Witness ==
  /\ Len(sel) = 2
  /\ "skip_attachment" \in log[sel[1]]
  /\ HasText(timeline[sel[1]])
  /\ wav[sel[1]] = "new"
  /\ "complete" \in log[sel[2]]
  /\ pc = "done"

C16_MarkerNeverInPayload ==
  pc = "payload" => ~read_slide_search(note)

\* Items are in reading order: top to bottom, then left to right.
InReadingOrder(items) ==
  \A a, b \in 1..Len(items) :
    a < b => \/ items[a].top < items[b].top
             \/ items[a].top = items[b].top /\ items[a].left <= items[b].left

(* C17: when the notes hold the marker and the slide has extractable text,  *)
(* the resolved notes are the notes with every occurrence of the marker     *)
(* replaced by exactly the texts of the non-title shapes in reading order   *)
(* (top to bottom, then left to right); when the slide has no extractable   *)
(* text the marker is removed, and a slide left with empty notes is skipped.*)
C17_MarkerReplacedBySlideText ==
  (pc # "resolve_notes" /\ read_slide_search(Strip(text)) /\ ~extract_raises)
    => LET items == SortItems(TextItems(shapes, 1))
           slide_text == JoinLines(items)
       IN /\ InReadingOrder(items)
          /\ IF slide_text # <<>>
               THEN note = SubFrom(slide_text, Strip(text), 1)
               ELSE /\ note = Strip(SubFrom(<<>>, Strip(text), 1))
                    /\ note = <<>> => pc = "skip_no_notes"

(* C18: for every range expression and every total >= 0 the selection is   *)
(* strictly ascending (so without duplicates) and holds only slide numbers  *)
(* from 1 to total.                                                         *)
C18_SelectionAscendingInRange ==
  pc = "selected" =>
    /\ \A k \in 1..Len(selected) : 1 <= selected[k] /\ selected[k] <= total
    /\ \A k \in 1..(Len(selected) - 1) : selected[k] < selected[k + 1]

\* A range reaching past the deck and a number before it, given out of order:
\* the selection is clipped and ascending.
C18_Witness ==
  /\ pc = "selected"
  /\ total = 10
  /\ spec = <<"3", "-", "6", ",", "1", ",", "2", "0">>
  /\ selected = <<1, 3, 4, 5, 6>>

\* The tokens of a range expression: its comma-separated parts, blanks
\* around them dropped, empty ones left out.
Tokens(expr) ==
  LET parts == Split(expr, ",")
  IN { Strip(parts[k]) : k \in 1..Len(parts) } \ {<<>>}

\* A number: digits only, blanks around them allowed.
IsNumber(s) ==
  LET t == Strip(s) IN t # <<>> /\ \A k \in 1..Len(t) : IsDigit(t[k])
NumberOf(s) == Decimal(Strip(s))

Before(tok) == SubSeq(tok, 1, Find(tok, "-", 1) - 1)
After(tok) == SubSeq(tok, Find(tok, "-", 1) + 1, Len(tok))

\* A well-formed token: n, a-b, -b or a-.
WellFormed(tok) ==
  \/ IsNumber(tok)
  \/ /\ Cardinality({ k \in 1..Len(tok) : tok[k] = "-" }) = 1
     /\ Strip(Before(tok)) = <<>> \/ IsNumber(Before(tok))
     /\ Strip(After(tok)) = <<>> \/ IsNumber(After(tok))
     /\ ~(Strip(Before(tok)) = <<>> /\ Strip(After(tok)) = <<>>)

\* The slides a well-formed token stands for in a deck of tot slides.
Meaning(tot, tok) ==
  IF IsNumber(tok)
    THEN {NumberOf(tok)} \cap (1..tot)
    ELSE LET a == IF Strip(Before(tok)) = <<>> THEN 1 ELSE NumberOf(Before(tok))
             b == IF Strip(After(tok)) = <<>> THEN tot ELSE NumberOf(After(tok))
         IN (IF a < 1 THEN 1 ELSE a)..(IF b > tot THEN tot ELSE b)

(* C19: the selection is the union of what the tokens of the expression     *)
(* stand for, clipped to 1..total: an empty expression selects every slide; *)
(* a number n selects n when 1 <= n <= total; a-b selects max(1,a) to       *)
(* min(total,b); -b starts at 1 and a- ends at total. With 10 slides, the   *)
(* empty expression gives 1..10 and "3-6,1,20" gives 1,3,4,5,6.             *)
C19_SelectionIsUnionOfTokens ==
  pc = "selected" =>
    /\ Strip(spec) = <<>> => selected = SortedSeq(1..total)
    /\ (Strip(spec) # <<>> /\ \A tok \in Tokens(spec) : WellFormed(tok))
         => selected =
              SortedSeq(UNION { Meaning(total, tok) : tok \in Tokens(spec) })
    /\ (total = 10 /\ spec = <<>>)
         => selected = <<1, 2, 3, 4, 5, 6, 7, 8, 9, 10>>
    /\ (total = 10 /\ spec = <<"3", "-", "6", ",", "1", ",", "2", "0">>)
         => selected = <<1, 3, 4, 5, 6>>

\* Two ranges and a number between them, all inside a deck of 10 slides.
C19_Witness ==
  /\ pc = "selected"
  /\ total = 10
  /\ spec = <<"1", "-", "3", ",", "5", ",", "8", "-", "1", "0">>
  /\ selected = <<1, 2, 3, 5, 8, 9, 10>>

(* C20: a malformed token is skipped silently and contributes nothing: the  *)
(* selection of an expression that holds malformed tokens is the selection  *)
(* of its well-formed tokens alone, also for tokens such as "x-5" or "3-y". *)
C20_MalformedTokenContributesNothing ==
  (pc = "selected" /\ Strip(spec) # <<>>)
    => selected =
         SortedSeq(UNION { Meaning(total, tok) :
                           tok \in { x \in Tokens(spec) : WellFormed(x) } })

(* C21: the manifest is append-only and its checksum is current: once     *)
(* records were appended to a manifest, the file holds exactly these       *)
(* records in the order of the appends, and the sibling .sha256 file holds *)
(* the SHA-256 of the manifest's current bytes, also when a manifest or    *)
(* checksum write failed.                                                  *)
C21_ManifestAppendOnlyChecksumCurrent ==
  \A t \in Timestamps :
    appended[t] # <<>>
      => /\ manifests[t] = File(appended[t])
         /\ checksums[t] = Sha256(manifests[t])

\* The slides counted as processed by the run are all the run has to show
\* at its end.
RunEnded == pc = "done" /\ run > 0

(* C22: at the end of a run the manifest of the run holds as many records  *)
(* as slides were counted as processed, the slides skipped for empty notes *)
(* and the slides failed with a network or API error included.             *)
C22_OneRecordPerProcessedSlide ==
  RunEnded => Len(manifests[session_ts].records) = processed

(* C23: a run never overwrites or alters the manifest of a prior run: a    *)
(* manifest file that holds a record of an earlier run is left as it is by *)
(* every step of the current run, also when both runs took the same        *)
(* timestamp.                                                              *)
C23_PriorManifestUntouched ==
  [][\A t \in Timestamps :
       (\E k \in 1..Len(manifests[t].records) :
          manifests[t].records[k].run # run')
         => manifests'[t] = manifests[t]
    ]_vars

\* The run changed the document: a timeline or the audio shapes differ from
\* the deck as opened, or a clear or an insert was done on some slide.
Mutated ==
  \/ timeline # original
  \/ voxShape # [s \in Slides |-> HasAudio(original[s])]
  \/ \E s \in Slides : log[s] \cap {"clearing", "audio_shape"} # {}

(* C24: when a run ended by completion or by cancellation and changed the  *)
(* document, the save of the cleanup was called (it completed, or its       *)
(* failure was reported) before the worker re-enabled the Start button.     *)
C24_FinalSaveAfterMutation ==
  (RunOver /\ runlog \cap {"done", "cancelled"} # {} /\ Mutated)
    => runlog \cap {"deck_saved", "save_failed"} # {}

\* A cancelled run that had attached audio to a slide saved the deck at its
\* cleanup.
C24_Witness ==
  /\ pc = "done"
  /\ "cancelled" \in runlog
  /\ \E s \in Slides : "audio_shape" \in log[s]
  /\ "deck_saved" \in runlog

(* C25: every run that passed validation has, when it ends, reported a      *)
(* summary to the user, also when it was cancelled, and the summary carries *)
(* the processed count, the skipped count and the failures, the skips       *)
(* counted apart from the failures.                                         *)
C25_SummaryAlwaysReported ==
  (RunOver /\ runlog \cap AbortTags = {})
    => \E tag \in runlog \cap {"done", "cancelled"} :
         {"processed", "skipped", "failures"} \subseteq SummaryCounts(tag)

\* A worker is between its start and its last access to the document (the
\* save of the cleanup).
WorkerActive == pc \notin {"idle", "release", "done"}

(* C26: no two runs execute at the same time: while a worker is between its *)
(* start and its last document access the Start button is disabled, so that *)
(* neither a click nor the Enter key starts another worker, whatever the    *)
(* worker of the run before still has to do in its cleanup.                 *)
C26_NoConcurrentRuns ==
  WorkerActive => start_button = "disabled"

\* The worker has cleared a slide's timeline while the worker of the run
\* before has not yet run the last lines of its cleanup.
C26_Witness ==
  /\ pc = "insert"
  /\ tailBtn + tailClr > 0
  /\ start_button = "disabled"

FailsAtInsertOrRestore(s) ==
  /\ pc \in {"insert", "restore"}
  /\ s = Idx
  /\ (log'[s] \ log[s]) \cap {"insertion_error", "restore_issues"} # {}

(* C28: a failure at insert or at restore puts the slide in Failed: the     *)
(* step that fails changes no timeline or shape of another slide and saves  *)
(* nothing, and from then on the slide is never saved by its own save step  *)
(* nor reported complete.                                                   *)
C28_InsertRestoreFailureIsFailed ==
  /\ [][\A s \in Slides :
          FailsAtInsertOrRestore(s)
            => /\ \A p \in Slides \ {s} :
                    timeline'[p] = timeline[p] /\ voxShape'[p] = voxShape[p]
               /\ savedTimeline' = savedTimeline
       ]_vars
  /\ [](\A s \in Slides :
          log[s] \cap {"insertion_error", "restore_issues"} # {}
            => "complete" \notin log[s] /\ ~(pc = "save" /\ s = Idx))

(* C29: a slide whose transcode failed is Failed: a slide is reported as    *)
(* converted, and its timeline cleared, audio inserted or saved, only when  *)
(* the transcode of this run wrote its audio file; the file of an earlier   *)
(* run is never attached in its place.                                      *)
C29_TranscodeFailureIsFailed ==
  \A s \in Slides :
    log[s] \cap ({"converted"} \cup AttachTags) # {} => wav[s] = "new"

\* The step in progress ends the synthesis of the slide with a response:
\* the retry loop is left with resp holding a status code.
FinalResponse ==
  /\ pc = "post"
  /\ pc' # "post"
  /\ resp'.kind = "response"

(* C30: a slide is synthesized exactly when the final response is a 2xx:    *)
(* every final 2xx takes the slide on to the conversion, and every other    *)
(* final response is logged as an API error for the slide, with no audio    *)
(* file written, no manifest record, no change to the document, and the     *)
(* run going on with the next slide.                                        *)
C30_SynthesizedIffFinal2xx ==
  [][FinalResponse =>
       IF 200 <= resp'.status_code /\ resp'.status_code < 300
         THEN /\ pc' = "convert"
              /\ "api_error" \notin log'[Idx]
         ELSE /\ "api_error" \in log'[Idx]
              /\ "converted" \notin log'[Idx]
              /\ manifests' = manifests
              /\ docVars' = docVars
              /\ pc' = "loop" /\ i' = i + 1
    ]_vars


\* C31: every run terminates: a worker that was started eventually reaches
\* its cleanup (the finally block of lines 1285-1297), whatever the network,
\* the transcoder and the host do.
C31_EveryRunReachesCleanup ==
  (pc = "validate") ~> (pc \in {"finally", "release", "done"})


\* C32: the backoff starts at 0.75 s and doubles: the wait after attempt k is
\* 0.75 * 2^(k-1) s (0.75 s after the first attempt, 1.5 s after the second);
\* every wait is followed by another attempt, and no wait follows the last
\* attempt.
C32_BackoffDoublesBeforeRetryOnly ==
  /\ Len(sleeps) <= NET_MAX_ATTEMPTS - 1
  /\ Len(sleeps) >= 1 => sleeps[1] = 750
  /\ Len(sleeps) >= 2 => sleeps[2] = 1500
  /\ \A k \in 2..Len(sleeps) : sleeps[k] = 2 * sleeps[k - 1]
  /\ Len(sleeps) = IF pc = "post" \/ posts = <<>>
                     THEN Len(posts)       \* the next attempt is to come
                     ELSE Len(posts) - 1   \* the last attempt ended the loop
  /\ (pc = "post" /\ sleeps # <<>>) => attempts < NET_MAX_ATTEMPTS

\* Three attempts were made: two waits, none after the third.
C32_Witness ==
  /\ Len(posts) = NET_MAX_ATTEMPTS
  /\ sleeps = <<750, 1500>>
  /\ pc = "loop"


\* The steps of the attach block leave their log lines in this order.
StepsInOrder(s) ==
  /\ "clearing" \in log[s] => animation_snapshots[s] # Absent
  /\ "audio_shape" \in log[s] => "clearing" \in log[s]
  /\ ({"restored", "restore_issues", "snapshot_unavailable"} \cap log[s] # {})
       => "audio_shape" \in log[s]
  /\ "complete" \in log[s]
       => {"restored", "restore_issues", "snapshot_unavailable"} \cap log[s] # {}

\* The order of the steps alone.
StepsInOrderEverySlide == \A s \in Slides : StepsInOrder(s)

\* C33: within a slide the steps happen in the order snapshot, clear,
\* insert, restore, save, and the media is inserted only into a slide whose
\* live timeline is completely empty: after a delete that failed in the clear
\* step the slide does not go on to the insertion.
C33_InsertOnlyIntoEmptyTimeline ==
  /\ StepsInOrderEverySlide
  /\ pc = "restore" => timeline[Idx] = <<>>


\* The worker has left through its finally block and lines 1295-1297 of
\* every worker have run.
CleanupDone == pc = "done" /\ tailBtn = 0 /\ tailClr = 0

\* A step in which the worker finds cancel_event set: the break of the
\* snapshot loop (line 1028) or of the slide loop (line 1057).
SeesCancel ==
  \/ pc = "snapshot" /\ pc' = "loop" /\ i <= Len(sel)
  \/ pc = "loop" /\ pc' = "summary" /\ i <= Len(sel)

\* C34: on every exit path the cleanup re-enables Start, disables Cancel and
\* clears the cancellation flag, so that a run never sees a cancellation
\* that was not requested during that run.
C34_CleanupResetsForNextRun ==
  /\ [](CleanupDone => /\ start_button = "normal"
                        /\ cancel_button = "disabled"
                        /\ ~cancel_event)
  /\ [][SeesCancel => "cancelling" \in runlog]_vars

\* The cleanup itself, on every exit path.
CleanupResets ==
  CleanupDone => /\ start_button = "normal"
                 /\ cancel_button = "disabled"
                 /\ ~cancel_event


\* C35: while a run is in progress its Cancel button is enabled until it is
\* clicked, and a cancellation requested for the run stays set for the run
\* to see at its next slide boundary: the cleanup of a previous worker
\* neither disables the button nor clears the request.
C35_CancelBelongsToTheRun ==
  WorkerActive =>
    /\ "cancelling" \notin runlog => cancel_button = "normal"
    /\ "cancelling" \in runlog => cancel_event


\* C36: the end-of-run outcome matches what happened: "Cancelled" is shown
\* only if at least one selected slide was not started, the completion
\* message only if every selected slide was started, whenever the
\* cancellation arrives.
C36_OutcomeMatchesWhatHappened ==
  /\ "cancelled" \in runlog => \E s \in Selected : ~Started(s)
  /\ "done" \in runlog => \A s \in Selected : Started(s)

\* The completion half alone.
DoneOnlyIfAllStarted ==
  "done" \in runlog => \A s \in Selected : Started(s)


\* C37: if the settings hold a non-empty api_key at startup, then after the
\* migration step the key is stored in the OS vault and the persisted
\* settings no longer contain an api_key entry.
C37_MigratedKeyLeavesSettings ==
  (startup \in {"ui", "running"} /\ migrated.present) =>
    /\ vault = Value(Strip(migrated.value))
    /\ ~load_settings(settings_file, TRUE).api_key.present


\* The second half alone: the migrated key is no longer in SETTINGS_FILE.
PlaintextKeyGone ==
  (startup \in {"ui", "running"} /\ migrated.present) =>
    ~load_settings(settings_file, TRUE).api_key.present

\* The plaintext key is never used after a migration.
StartupFetchWithoutPlaintextKey ==
  migrated.present => ~startup_fetch_key.present


\* The cache load_voice_cache would return now is younger than one week and
\* stamped with the hash of the current key.
LoadedCacheIsFreshAndOfCurrentKey ==
  load_voice_cache.exists =>
    /\ now - load_voice_cache.last_updated < WEEK_SECONDS
    /\ load_voice_cache.api_key_hash = Hash(get_api_key)

\* The voices of the cache file are those of the key it is stamped with.
CacheVoicesAreOfStampedKey ==
  cache_file.exists =>
    cache_file.voices = AccountVoices(cache_file.api_key_hash.sha256)

\* C38: the voice cache is bound to the API key: load_voice_cache returns a
\* cache only if it was saved less than one week ago and is stamped with the
\* hash of the current key, and the voices of a cache were fetched with the
\* key whose hash is stamped on it, for every interleaving of login, key
\* change, logout and the refresh thread.
C38_CacheBoundToKey ==
  LoadedCacheIsFreshAndOfCurrentKey /\ CacheVoicesAreOfStampedKey


\* After a logout that did delete the key, the window shows no voices and
\* no voice is selected.
ListStaysEmptyAfterLogout ==
  (acct_state = "Logged out" /\ ~vault.present)
    => voices_map = <<>> /\ voice_id_var = ""

\* After a logout that did delete the key, there is no cache file.
CacheStaysDeletedAfterLogout ==
  (acct_state = "Logged out" /\ ~vault.present) => ~cache_file.exists

\* C39: after logout the stored key and the voice cache are deleted and the
\* voice list and the selected voice id stay empty until the next login: a
\* refresh thread started before the logout repopulates neither the list
\* nor the cache.
C39_LogoutLeavesNothingBehind ==
  acct_state = "Logged out" =>
    /\ ~vault.present
    /\ ~cache_file.exists
    /\ voices_map = <<>>
    /\ voice_id_var = ""


\* C40: PreviewPlayer.stop() always returns: it acquires the lock, stops the
\* playback, removes the temp file and releases the lock, whether or not a
\* preview worker is running.
C40_StopAlwaysReturns ==
  (caller = "stop") ~> (caller = "idle")

=============================================================================
